---- MODULE Spec2Model ----
(***************************************************************************)
(* Verification model of the agent-guardrail proxy: the chat handler       *)
(* (backend/internal/proxy/handler.go), the Cedar policy engine with hot   *)
(* reload (backend/internal/cedar/engine.go), the context builder and the  *)
(* deterministic PII detector (backend/internal/analyzer).                 *)
(*                                                                         *)
(* Conventions: Go float64 scores are carried as integer percents          *)
(* (0.95 -> 95); a Go string is a sequence of one-character strings so     *)
(* that the regular expressions of pii.go can be run on it; a nil pointer  *)
(* is the string "nil".                                                    *)
(***************************************************************************)
EXTENDS Integers, Sequences, FiniteSets, TLC

\* ------------------------------------------------------------------------
\* Bounds of the model (not program constants)
\* ------------------------------------------------------------------------
MaxMsgs == 2
MaxChoices == 2
MaxFileEvents == 2

\* ------------------------------------------------------------------------
\* Characters and regular expressions (analyzer/pii.go)
\* ------------------------------------------------------------------------
Digit == {"0", "1", "2", "3", "4", "5", "6", "7", "8", "9"}
Lower == {"a", "b", "c", "d", "e", "f", "g", "h", "i", "j", "k", "l", "m",
          "n", "o", "p", "q", "r", "s", "t", "u", "v", "w", "x", "y", "z"}
Upper == {"A", "B", "C", "D", "E", "F", "G", "H", "I", "J", "K", "L", "M",
          "N", "O", "P", "Q", "R", "S", "T", "U", "V", "W", "X", "Y", "Z"}
Alpha == Lower \cup Upper
WordChar == Alpha \cup Digit \cup {"_"}
Space == {" "}

\* A regular expression without alternation is a sequence of items: a
\* quantified character class [kind |-> "c", cls, min, max, greedy], the
\* zero-width assertion \b [kind |-> "b"], or the counted group
\* (?:cls sep*?){min,max} [kind |-> "g", cls, sep, min, max].
Inf == 99
Cls(cls, min, max) ==
    [kind |-> "c", cls |-> cls, sep |-> {}, min |-> min, max |-> max, greedy |-> TRUE]
Lazy(cls, min, max) ==
    [kind |-> "c", cls |-> cls, sep |-> {}, min |-> min, max |-> max, greedy |-> FALSE]
WordB == [kind |-> "b", cls |-> {}, sep |-> {}, min |-> 0, max |-> 0, greedy |-> TRUE]
Group(cls, sep, min, max) ==
    [kind |-> "g", cls |-> cls, sep |-> sep, min |-> min, max |-> max, greedy |-> TRUE]

\* \b at position pos (between text[pos-1] and text[pos]), ASCII semantics.
WordBoundary(text, pos) ==
    LET before == pos > 1 /\ text[pos - 1] \in WordChar
        after  == pos <= Len(text) /\ text[pos] \in WordChar
    IN before # after

\* Number of consecutive characters of cls starting at pos, at most max.
RECURSIVE Run(_, _, _, _)
Run(cls, text, pos, max) ==
    IF max = 0 \/ pos > Len(text) \/ text[pos] \notin cls THEN 0
    ELSE 1 + Run(cls, text, pos + 1, max - 1)

\* Leftmost-first (backtracking) match of items[k..] at pos: the position
\* after the match, or 0 when there is none.  A greedy item tries the most
\* repetitions first, a lazy one the fewest.
RECURSIVE MatchItems(_, _, _, _)
RECURSIVE TryDown(_, _, _, _, _)
RECURSIVE TryUp(_, _, _, _, _, _)
RECURSIVE MatchGroup(_, _, _, _, _)
RECURSIVE TrySeps(_, _, _, _, _, _)
MatchItems(items, k, text, pos) ==
    IF k > Len(items) THEN pos
    ELSE IF items[k].kind = "b"
         THEN IF WordBoundary(text, pos) THEN MatchItems(items, k + 1, text, pos) ELSE 0
         ELSE IF items[k].kind = "g" THEN MatchGroup(items, k, text, pos, 0)
         ELSE LET avail == Run(items[k].cls, text, pos, items[k].max)
              IN IF avail < items[k].min THEN 0
                 ELSE IF items[k].greedy
                      THEN TryDown(items, k, text, pos, avail)
                      ELSE TryUp(items, k, text, pos, items[k].min, avail)
TryDown(items, k, text, pos, n) ==
    LET r == MatchItems(items, k + 1, text, pos + n)
    IN IF r # 0 THEN r
       ELSE IF n > items[k].min THEN TryDown(items, k, text, pos, n - 1) ELSE 0
TryUp(items, k, text, pos, n, avail) ==
    LET r == MatchItems(items, k + 1, text, pos + n)
    IN IF r # 0 THEN r
       ELSE IF n < avail THEN TryUp(items, k, text, pos, n + 1, avail) ELSE 0

\* The counted group after c repetitions: one more repetition is preferred
\* (greedy count); when that fails and c >= min the group is left.
MatchGroup(items, k, text, pos, c) ==
    LET more == IF c < items[k].max /\ pos <= Len(text) /\ text[pos] \in items[k].cls
                THEN TrySeps(items, k, text, pos + 1, c + 1, 0)
                ELSE 0
    IN IF more # 0 THEN more
       ELSE IF c >= items[k].min THEN MatchItems(items, k + 1, text, pos) ELSE 0
\* The lazy separators of the repetition that ends at pos: n of them are
\* taken, fewest first.
TrySeps(items, k, text, pos, c, n) ==
    LET r == MatchGroup(items, k, text, pos + n, c)
    IN IF r # 0 THEN r
       ELSE IF pos + n <= Len(text) /\ text[pos + n] \in items[k].sep
            THEN TrySeps(items, k, text, pos, c, n + 1)
            ELSE 0

\* First alternative (in order) of a sequence of item sequences that matches.
RECURSIVE MatchAlts(_, _, _, _)
MatchAlts(alts, a, text, pos) ==
    IF a > Len(alts) THEN 0
    ELSE LET r == MatchItems(alts[a], 1, text, pos)
         IN IF r # 0 THEN r ELSE MatchAlts(alts, a + 1, text, pos)

\* emailRegex: [A-Za-z0-9._%+-]+@[A-Za-z0-9.-]+\.[A-Za-z]{2,}
emailRegex ==
    << << Cls(Alpha \cup Digit \cup {".", "_", "%", "+", "-"}, 1, Inf),
          Cls({"@"}, 1, 1),
          Cls(Alpha \cup Digit \cup {".", "-"}, 1, Inf),
          Cls({"."}, 1, 1),
          Cls(Alpha, 2, Inf) >> >>

\* phoneRegex: (\+\d{1,2}\s?)?1?\-?\.?\s?\(?\d{3}\)?[\s.-]?\d{3}[\s.-]?\d{4}
\* The optional group is the first alternative (taken), then skipped.
phoneTail ==
    << Cls({"1"}, 0, 1), Cls({"-"}, 0, 1), Cls({"."}, 0, 1), Cls(Space, 0, 1),
       Cls({"("}, 0, 1), Cls(Digit, 3, 3), Cls({")"}, 0, 1),
       Cls(Space \cup {".", "-"}, 0, 1), Cls(Digit, 3, 3),
       Cls(Space \cup {".", "-"}, 0, 1), Cls(Digit, 4, 4) >>
phoneRegex ==
    << << Cls({"+"}, 1, 1), Cls(Digit, 1, 2), Cls(Space, 0, 1) >> \o phoneTail,
       phoneTail >>

\* ssnRegex: \b\d{3}-\d{2}-\d{4}\b
ssnRegex ==
    << << WordB, Cls(Digit, 3, 3), Cls({"-"}, 1, 1), Cls(Digit, 2, 2),
          Cls({"-"}, 1, 1), Cls(Digit, 4, 4), WordB >> >>

\* creditCardRegex: \b(?:\d[ -]*?){13,16}\b
creditCardRegex == << << WordB, Group(Digit, {" ", "-"}, 13, 16), WordB >> >>

\* regexp.MatchString: some position has a match.
MatchString(re, text) ==
    \E pos \in 1..(Len(text) + 1) : MatchAlts(re, 1, text, pos) # 0

\* regexp.ReplaceAllString: successive non-overlapping leftmost matches are
\* replaced by repl; the assertions see the original text.
RECURSIVE ReplaceFrom(_, _, _, _)
ReplaceFrom(re, text, repl, pos) ==
    IF pos > Len(text) THEN << >>
    ELSE LET e == MatchAlts(re, 1, text, pos)
         IN IF e > pos
            THEN repl \o ReplaceFrom(re, text, repl, e)
            ELSE <<text[pos]>> \o ReplaceFrom(re, text, repl, pos + 1)
ReplaceAllString(re, text, repl) == ReplaceFrom(re, text, repl, 1)

PIIKinds == {"email", "phone", "ssn", "credit_card"}
PIIRegex(kind) ==
    CASE kind = "email" -> emailRegex
      [] kind = "phone" -> phoneRegex
      [] kind = "ssn" -> ssnRegex
      [] kind = "credit_card" -> creditCardRegex

\* PIIDetector.Detect: the kinds whose pattern matches.
Detect(text) == {k \in PIIKinds : MatchString(PIIRegex(k), text)}

TokEmail == <<"[", "E", "M", "A", "I", "L", "]">>
TokPhone == <<"[", "P", "H", "O", "N", "E", "]">>
TokSSN == <<"[", "S", "S", "N", "]">>
TokCard == <<"[", "C", "R", "E", "D", "I", "T", "_", "C", "A", "R", "D", "]">>

PIIToken(kind) ==
    CASE kind = "email" -> TokEmail
      [] kind = "phone" -> TokPhone
      [] kind = "ssn" -> TokSSN
      [] kind = "credit_card" -> TokCard
\* One step of Redact: `if typeMap[kind] { redacted = re.ReplaceAllString(..) }`
RedactKind(kind, text, types) ==
    IF kind \in types THEN ReplaceAllString(PIIRegex(kind), text, PIIToken(kind)) ELSE text

\* A redactor that replaces SSNs before phone numbers.
RedactSSNFirst(text, types) ==
    RedactKind("credit_card",
        RedactKind("phone",
            RedactKind("ssn",
                RedactKind("email", text, types), types), types), types)
\* PIIDetector.Redact: email, phone, ssn, credit_card, in this order, each
\* on the result of the previous replacement.
Redact(text, types) ==
    RedactKind("credit_card",
        RedactKind("ssn",
            RedactKind("phone",
                RedactKind("email", text, types), types), types), types)

\* ------------------------------------------------------------------------
\* Sample texts
\* ------------------------------------------------------------------------
RECURSIVE Rep(_, _)
Rep(c, n) == IF n = 0 THEN << >> ELSE <<c>> \o Rep(c, n - 1)
TxtHello == <<"h", "i">>
TxtEmail == <<"a", "@", "b", ".", "c", "o">>
TxtSSN == <<"1", "2", "3", "-", "4", "5", "-", "6", "7", "8", "9">>
TxtPhone == <<"4", "1", "5", "-", "5", "5", "5", "-", "0", "1", "0", "0">>
TxtCard == Rep("4", 16)

\* ------------------------------------------------------------------------
\* Intent taxonomy and signals (analyzer/intent.go, heuristic.go)
\* ------------------------------------------------------------------------
IntentUnknown == "unknown"
Taxonomy == {"info.query", "info.query.pii", "info.summarize", "code.generate",
             "code.exploit", "tool.safe", "tool.dangerous", "file.read",
             "file.write", "sys.control", "conv.greeting", "conv.other",
             "safety.toxicity", IntentUnknown}
isValidIntent(intent) == intent \in Taxonomy

\* intentToAction / ActionForIntent: the canonical intent -> verb map.
ActionForIntent(intent) ==
    CASE intent \in {"info.query", "info.query.pii"} -> "query"
      [] intent = "info.summarize" -> "summarize"
      [] intent = "code.generate" -> "generate"
      [] intent = "code.exploit" -> "exploit"
      [] intent \in {"tool.safe", "tool.dangerous"} -> "tool"
      [] intent = "file.read" -> "read"
      [] intent = "file.write" -> "write"
      [] intent = "sys.control" -> "control"
      [] intent = "conv.greeting" -> "greeting"
      [] intent = "conv.other" -> "other"
      [] OTHER -> ""

\* RiskFromIntent: the confidence is the risk.
RiskFromIntent(intent, confidence) == confidence

\* IntentSignal
Signal(intent, conf, action, domain, dconf, decision, reason) ==
    [Intent |-> intent, Confidence |-> conf, Action |-> action,
     Domain |-> domain, DomainConfidence |-> dconf, ActionConfidence |-> 0,
     SidecarDecision |-> decision, SidecarReason |-> reason]

\* ------------------------------------------------------------------------
\* Context (analyzer/types.go)
\* ------------------------------------------------------------------------
EmptySignals == [PII |-> {}, Topic |-> "", UserText |-> << >>, FullText |-> << >>]
NewContext(role) ==
    [Role |-> role, Intent |-> "", UserIntent |-> "", SystemIntent |-> "",
     RiskScore |-> 0, Confidence |-> 0, Action |-> "", ActionConfidence |-> 0,
     Domain |-> "", DomainConfidence |-> 0, AnalyzerFailed |-> FALSE,
     Signals |-> EmptySignals]

\* A Context that keeps the intent of the last signal attached.
AttachIntentLastWins(c, sig, role) ==
    LET c1 == CASE role = "user" -> [c EXCEPT !.UserIntent = sig.Intent]
                [] role = "system" -> [c EXCEPT !.SystemIntent = sig.Intent]
                [] OTHER -> c
    IN [c1 EXCEPT !.Intent = sig.Intent, !.Confidence = sig.Confidence,
                  !.RiskScore = RiskFromIntent(sig.Intent, sig.Confidence)]
\* Context.AttachIntent: the role-specific intent, then the aggregate intent
\* when the new risk is at least the stored one or no intent is stored.
AttachIntent(c, sig, role) ==
    LET c1 == CASE role = "user" -> [c EXCEPT !.UserIntent = sig.Intent]
                [] role = "system" -> [c EXCEPT !.SystemIntent = sig.Intent]
                [] OTHER -> c
        currentRisk == RiskFromIntent(sig.Intent, sig.Confidence)
    IN IF currentRisk >= c1.RiskScore \/ c1.Intent = ""
       THEN [c1 EXCEPT !.Intent = sig.Intent, !.Confidence = sig.Confidence,
                       !.RiskScore = currentRisk]
       ELSE c1

\* The Signals struct with its slices as sequences.
Signals(pii, toxicity, injection, topic, capabilities) ==
    [PII |-> pii, Toxicity |-> toxicity, PromptInjection |-> injection,
     Topic |-> topic, Capabilities |-> capabilities]
ZeroSignals == Signals(<< >>, 0, FALSE, "", << >>)
Elems(q) == {q[i] : i \in 1..Len(q)}
\* `for _, p := range in { if !seen[p] { have = append(have, p) } }`: seen is
\* filled from have before the loop and not updated inside it.
Merge(have, in) == have \o SelectSeq(in, LAMBDA p : p \notin Elems(have))

\* A merge that replaces what the Context holds.
AttachSignalsReplace(c, signals) ==
    [c EXCEPT !.Signals.PII = signals.PII, !.Signals.Capabilities = signals.Capabilities]
\* Context.AttachSignals
AttachSignals(c, signals) ==
    [c EXCEPT
       !.Signals.PII = Merge(@, signals.PII),
       !.Signals.Toxicity = IF signals.Toxicity > @ THEN signals.Toxicity ELSE @,
       !.Signals.PromptInjection = @ \/ signals.PromptInjection,
       !.Signals.Topic = IF @ = "" /\ signals.Topic # "" THEN signals.Topic ELSE @,
       !.Signals.Capabilities = Merge(@, signals.Capabilities)]

\* ------------------------------------------------------------------------
\* Signal aggregator (analyzer/aggregator.go)
\* ------------------------------------------------------------------------
RECURSIVE ConcatText(_, _)
ConcatText(msgs, roles) ==
    IF msgs = << >> THEN << >>
    ELSE (IF Head(msgs).role \in roles THEN Head(msgs).content \o <<" ">> ELSE << >>)
         \o ConcatText(Tail(msgs), roles)
MsgRoles == {"user", "system"}
Aggregate(msgs) ==
    IF Len(msgs) = 0 THEN EmptySignals
    ELSE [PII |-> Detect(ConcatText(msgs, MsgRoles)), Topic |-> "",
          UserText |-> ConcatText(msgs, {"user"}),
          FullText |-> ConcatText(msgs, MsgRoles)]
RedactPII(text, types) == Redact(text, types)
DetectPII(text) == Detect(text)

\* ------------------------------------------------------------------------
\* Role table of guardrail.yaml (policy/types.go RoleConfig) and the Role
\* Pre-Gate (proxy/handler.go enforceRolePolicy)
\* ------------------------------------------------------------------------
RoleCfg(topics, actions, blockIntents, blockTopics) ==
    [AllowedTopics |-> topics, AllowActions |-> actions,
     BlockIntents |-> blockIntents, BlockTopics |-> blockTopics,
     DomainConfidenceThreshold |-> 0, ActionConfidenceThreshold |-> 0]
Roles ==
    [recruiter |-> RoleCfg({"recruitment"}, {"query", "summarize", "greeting"}, {}, {}),
     analyst |-> RoleCfg({"recruitment", "hr"}, {}, {}, {}),
     guest |-> RoleCfg({}, {}, {"code.exploit"}, {"politics"})]
DefaultDomainThreshold == 60
DefaultActionThreshold == 65

isConstrained(roleCfg) == roleCfg.AllowedTopics # {} \/ roleCfg.AllowActions # {}

\* A gate that accepts any non-empty domain.
enforceRolePolicyAnyTopic(c) ==
    IF c.Role = "" \/ c.Role \notin DOMAIN Roles THEN "ALLOW"
    ELSE
    LET roleCfg == Roles[c.Role]
        constrained == isConstrained(roleCfg)
        domainThreshold == IF roleCfg.DomainConfidenceThreshold = 0
                           THEN DefaultDomainThreshold ELSE roleCfg.DomainConfidenceThreshold
        actionThreshold == IF roleCfg.ActionConfidenceThreshold = 0
                           THEN DefaultActionThreshold ELSE roleCfg.ActionConfidenceThreshold
        domain == IF c.Domain = "" THEN c.Signals.Topic ELSE c.Domain
        action == IF c.Action = "" THEN ActionForIntent(c.Intent) ELSE c.Action
    IN IF c.AnalyzerFailed /\ constrained THEN "DENY"
       ELSE IF roleCfg.AllowedTopics # {}
               /\ (domain = ""
                   \/ (c.DomainConfidence > 0 /\ c.DomainConfidence < domainThreshold))
       THEN "DENY"
       ELSE IF roleCfg.BlockTopics # {} /\ domain # "" /\ domain \in roleCfg.BlockTopics
       THEN "DENY"
       ELSE IF roleCfg.AllowActions # {}
               /\ ((action = "" /\ constrained)
                   \/ (action # "" /\ action \notin roleCfg.AllowActions)
                   \/ (c.ActionConfidence > 0 /\ c.ActionConfidence < actionThreshold))
       THEN "DENY"
       ELSE IF roleCfg.BlockIntents # {} /\ c.Intent # "" /\ c.Intent \in roleCfg.BlockIntents
       THEN "DENY"
       ELSE IF c.Intent = IntentUnknown /\ constrained THEN "DENY"
       ELSE "ALLOW"
\* HandlerConfig.enforceRolePolicy with hc.Policy set: the decision.
enforceRolePolicy(c) ==
    IF c.Role = "" \/ c.Role \notin DOMAIN Roles THEN "ALLOW"
    ELSE
    LET roleCfg == Roles[c.Role]
        constrained == isConstrained(roleCfg)
        domainThreshold == IF roleCfg.DomainConfidenceThreshold = 0
                           THEN DefaultDomainThreshold ELSE roleCfg.DomainConfidenceThreshold
        actionThreshold == IF roleCfg.ActionConfidenceThreshold = 0
                           THEN DefaultActionThreshold ELSE roleCfg.ActionConfidenceThreshold
        domain == IF c.Domain = "" THEN c.Signals.Topic ELSE c.Domain
        action == IF c.Action = "" THEN ActionForIntent(c.Intent) ELSE c.Action
    IN IF c.AnalyzerFailed /\ constrained THEN "DENY"
       ELSE IF roleCfg.AllowedTopics # {}
               /\ (domain = "" \/ domain \notin roleCfg.AllowedTopics
                   \/ (c.DomainConfidence > 0 /\ c.DomainConfidence < domainThreshold))
       THEN "DENY"
       ELSE IF roleCfg.BlockTopics # {} /\ domain # "" /\ domain \in roleCfg.BlockTopics
       THEN "DENY"
       ELSE IF roleCfg.AllowActions # {}
               /\ ((action = "" /\ constrained)
                   \/ (action # "" /\ action \notin roleCfg.AllowActions)
                   \/ (c.ActionConfidence > 0 /\ c.ActionConfidence < actionThreshold))
       THEN "DENY"
       ELSE IF roleCfg.BlockIntents # {} /\ c.Intent # "" /\ c.Intent \in roleCfg.BlockIntents
       THEN "DENY"
       ELSE IF c.Intent = IntentUnknown /\ constrained THEN "DENY"
       ELSE "ALLOW"

\* ------------------------------------------------------------------------
\* Heuristic analyzer and intent sidecar client (analyzer/heuristic.go,
\* analyzer/intent_analyzer.go).  The keyword tables and the remote
\* classifier are the environment: their verdict for a text is an input.
\* ------------------------------------------------------------------------
Topics == {"recruitment", "politics"}
AllSpaces(t) == \A i \in 1..Len(t) : t[i] = " "
NoSignal == [ok |-> FALSE, sig |-> Signal("", 0, "", "", 0, "", "")]

\* HeuristicAnalyzer.Analyze: blank text is "unknown" with confidence 1.0;
\* otherwise the greeting family (heur = "greeting") or no match.
Analyze(userText, heur) ==
    IF AllSpaces(userText)
    THEN [ok |-> TRUE, sig |-> Signal(IntentUnknown, 100, "", "", 0, "", "")]
    ELSE IF heur = "greeting"
         THEN [ok |-> TRUE, sig |-> Signal("conv.greeting", 95, "greeting", "", 0, "", "")]
         ELSE NoSignal

\* HeuristicAnalyzer.AnalyzeWithDomain; topic is DetectTopic(text).
AnalyzeWithDomain(userText, heur, topic) ==
    LET a == Analyze(userText, heur)
    IN IF a.ok
       THEN [ok |-> TRUE,
             sig |-> [a.sig EXCEPT !.Domain = topic,
                                   !.DomainConfidence = IF topic # "" THEN 90 ELSE 0]]
       ELSE IF topic # ""
            THEN [ok |-> TRUE, sig |-> Signal("", 0, "", topic, 90, "", "")]
            ELSE NoSignal

\* Replies of the sidecar: a transport error or an IntentSignal document.
RawSignals ==
    {Signal("info.query", 80, "query", "recruitment", 90, "allow", ""),
     Signal("code.exploit", 90, "", "", 0, "block", "exploit attempt"),
     Signal("code.exploit", 70, "", "", 0, "allow", ""),
     Signal("chitchat", 30, "", "", 0, "", "")}
SidecarErr == [err |-> TRUE, sig |-> Signal("", 0, "", "", 0, "", "")]
SidecarReplies == {SidecarErr} \cup {[err |-> FALSE, sig |-> s] : s \in RawSignals}

\* IntentAnalyzer.callSidecar without its cache: an error, or the signal
\* with an intent outside the taxonomy coerced to "unknown".
callSidecar(reply) ==
    IF reply.err THEN reply
    ELSE [reply EXCEPT !.sig.Intent =
              IF isValidIntent(reply.sig.Intent) THEN reply.sig.Intent ELSE IntentUnknown]

\* ------------------------------------------------------------------------
\* Compiled policies (policy/compiler.go) and the engine (cedar/engine.go)
\* ------------------------------------------------------------------------
\* A rule: effect, a conjunction of conditions over the context record, and
\* the @obligation / @fields annotations.
Cond(piiEmpty, piiAny, piiNone, intent, confAbove) ==
    [piiEmpty |-> piiEmpty, piiAny |-> piiAny, piiNone |-> piiNone,
     intent |-> intent, confAbove |-> confAbove]
Rule(effect, cond, obligation, fields) ==
    [effect |-> effect, cond |-> cond, obligation |-> obligation, fields |-> fields]

\* Output of the compiler for pii.block = [ssn, credit_card],
\* pii.redact = [email, phone], intents: code.exploit blocked above 40.
PolA ==
    << Rule("permit", Cond(TRUE, {}, {}, "", -1), "", << >>),
       Rule("forbid", Cond(FALSE, {}, {}, "code.exploit", 40), "", << >>),
       Rule("forbid", Cond(FALSE, {"ssn", "credit_card"}, {}, "", -1), "", << >>),
       Rule("permit", Cond(FALSE, {"email", "phone"}, {"ssn", "credit_card"}, "", -1),
            "REDACT", <<"email", "phone">>) >>
\* A hand-written document: redact every kind, ask for approval when the
\* intent is unknown, permit the rest.
PolB ==
    << Rule("permit", Cond(FALSE, PIIKinds, {}, "", -1),
            "REDACT", <<"email", "phone", "ssn", "credit_card">>),
       Rule("permit", Cond(TRUE, {}, {}, IntentUnknown, -1), "RequireApproval", << >>),
       Rule("permit", Cond(TRUE, {}, {}, "info.query", -1), "", << >>),
       Rule("permit", Cond(TRUE, {}, {}, "conv.greeting", -1), "", << >>),
       Rule("forbid", Cond(FALSE, {}, {}, "code.exploit", 40), "", << >>) >>
\* A hand-written document whose redaction rules overlap: one rule per kind
\* and a rule that permits everything.
PolC ==
    << Rule("permit", Cond(FALSE, {"email"}, {}, "", -1), "REDACT", <<"email">>),
       Rule("permit", Cond(FALSE, {"phone"}, {}, "", -1), "REDACT", <<"phone">>),
       Rule("permit", Cond(FALSE, {}, {}, "", -1), "", << >>) >>
\* A hand-written document for tool calls: whatever carries no PII is
\* permitted subject to human approval.
PolD ==
    << Rule("permit", Cond(TRUE, {}, {}, "", -1), "RequireApproval", << >>),
       Rule("forbid", Cond(FALSE, {"ssn", "credit_card"}, {}, "", -1), "", << >>) >>
PolicyDocs == [PolA |-> PolA, PolB |-> PolB, PolC |-> PolC, PolD |-> PolD]

\* What os.ReadFile can find at PolicyPath.
FileContents == {"PolA", "PolB", "PolC", "bad", "missing"}
\* hex(sha256(data))[:12]
VersionOf(data) ==
    CASE data = "PolA" -> "3f9a1c04b7e2"
      [] data = "PolB" -> "a81d55e0c9f6"
      [] data = "PolC" -> "5be2307f1d94"
      [] data = "PolD" -> "c40e9b7a2d15"
      [] data = "bad" -> "00c4e7719b2d"
      [] OTHER -> ""

\* A reload that publishes whatever it read.
reloadUnchecked(data) ==
    [err |-> FALSE, ps |-> IF data \in DOMAIN PolicyDocs THEN data ELSE "nil",
     version |-> VersionOf(data)]
\* Engine.reload up to its two stores: the error of ReadFile or of
\* UnmarshalCedar returns before anything is stored.
reload(data) ==
    IF data = "missing" THEN [err |-> TRUE, ps |-> "nil", version |-> ""]
    ELSE IF data \notin DOMAIN PolicyDocs THEN [err |-> TRUE, ps |-> "nil", version |-> ""]
    ELSE [err |-> FALSE, ps |-> data, version |-> VersionOf(data)]

\* The cedar.Request context record built by EvaluateContextWithResult.
CedarRecord(c) ==
    [intent |-> c.Intent, user_intent |-> c.UserIntent, system_intent |-> c.SystemIntent,
     risk_score |-> c.RiskScore, confidence |-> c.Confidence,
     pii |-> c.Signals.PII, topic |-> c.Signals.Topic]

Satisfied(rule, rec) ==
    /\ rule.cond.piiEmpty => rec.pii = {}
    /\ rule.cond.piiAny # {} => rec.pii \cap rule.cond.piiAny # {}
    /\ rec.pii \cap rule.cond.piiNone = {}
    /\ rule.cond.intent # "" =>
           (rec.intent = rule.cond.intent \/ rec.user_intent = rule.cond.intent)
    /\ rec.confidence > rule.cond.confAbove

\* An authorizer in which a satisfied permit is enough.
AuthorizePermitWins(ps, rec) ==
    LET forbids == {i \in 1..Len(ps) : ps[i].effect = "forbid" /\ Satisfied(ps[i], rec)}
        permits == {i \in 1..Len(ps) : ps[i].effect = "permit" /\ Satisfied(ps[i], rec)}
    IN IF permits # {} THEN [ok |-> TRUE, reasons |-> permits]
       ELSE IF forbids # {} THEN [ok |-> FALSE, reasons |-> forbids]
       ELSE [ok |-> FALSE, reasons |-> {}]
\* cedar.Authorize: the satisfied forbids decide if there are any, else the
\* satisfied permits; Reasons are the rules that decided.
Authorize(ps, rec) ==
    LET forbids == {i \in 1..Len(ps) : ps[i].effect = "forbid" /\ Satisfied(ps[i], rec)}
        permits == {i \in 1..Len(ps) : ps[i].effect = "permit" /\ Satisfied(ps[i], rec)}
    IN IF forbids # {} THEN [ok |-> FALSE, reasons |-> forbids]
       ELSE IF permits # {} THEN [ok |-> TRUE, reasons |-> permits]
       ELSE [ok |-> FALSE, reasons |-> {}]

NoResult == [Decision |-> "", Reason |-> "", PolicyID |-> 0, Obligations |-> << >>]
\* Engine.EvaluateContextWithResult on the loaded policy set psName; first is
\* diagnostics.Reasons[0] (0 when Reasons is empty).
EvaluateContextWithResult(psName, c, first) ==
    IF psName = "nil"
    THEN [Decision |-> "DENY", Reason |-> "Policy engine not initialized",
          PolicyID |-> 0, Obligations |-> << >>]
    ELSE LET ps == PolicyDocs[psName]
             auth == Authorize(ps, CedarRecord(c))
             obligations == IF first # 0 /\ ps[first].obligation # ""
                            THEN << [Type |-> ps[first].obligation,
                                     Fields |-> ps[first].fields] >>
                            ELSE << >>
         IN IF auth.ok
            THEN [Decision |-> "ALLOW", Reason |-> "Policy allowed the request",
                  PolicyID |-> first, Obligations |-> obligations]
            ELSE [Decision |-> "DENY", Reason |-> "Policy denied the request",
                  PolicyID |-> first, Obligations |-> obligations]
\* The candidates for Reasons[0]: cedar-go collects the reasons while ranging
\* over the policy map, whose order Go leaves unspecified.
FirstReasons(psName, c) ==
    IF psName = "nil" THEN {0}
    ELSE LET r == Authorize(PolicyDocs[psName], CedarRecord(c)).reasons
         IN IF r = {} THEN {0} ELSE r

\* ------------------------------------------------------------------------
\* Requests, responses and their inputs
\* ------------------------------------------------------------------------
TxtMailPhone == TxtEmail \o <<" ">> \o TxtPhone
TxtRunOn == Rep("5", 10) \o TxtSSN
RoleHeaders == {"", "recruiter", "analyst", "guest", "ghost"}

RECURSIVE SeqsUpTo(_, _)
SeqsUpTo(S, n) ==
    IF n = 0 THEN {<< >>}
    ELSE LET prev == SeqsUpTo(S, n - 1)
         IN prev \cup {Append(q, x) : q \in {p \in prev : Len(p) = n - 1}, x \in S}

Messages(texts) == [role : MsgRoles, content : texts]
\* A wire body: one the provider adapter cannot parse, or a message list.
Bodies(texts, maxm) ==
    {[parses |-> FALSE, messages |-> << >>]}
    \cup {[parses |-> TRUE, messages |-> m] : m \in SeqsUpTo(Messages(texts), maxm)}
\* Provider.ParseRequest
ParseRequest(b) == [ok |-> b.parses, Messages |-> b.messages]
\* json.Marshal(parsedReq): a struct of strings, numbers and booleans that
\* came out of Unmarshal always serializes.
Marshal(req) == [err |-> FALSE, body |-> [parses |-> TRUE, messages |-> req.Messages]]

\* What the provider does with a forwarded request: a transport error, a
\* body that cannot be read, a body that is not a chat completion, or a chat
\* completion with the contents of its choices.
NoUpstream == [err |-> "", parses |-> FALSE, choices |-> << >>]
Upstreams(texts, maxc) ==
    {[err |-> "transport", parses |-> FALSE, choices |-> << >>],
     [err |-> "read", parses |-> FALSE, choices |-> << >>],
     NoUpstream}
    \cup {[err |-> "", parses |-> TRUE, choices |-> c] : c \in SeqsUpTo(texts, maxc)}

\* ------------------------------------------------------------------------
\* Handler, lines 98-240: topic, intent, sidecar verdict, Role Pre-Gate
\* ------------------------------------------------------------------------
FillAction(sig) ==
    IF sig.Action = "" THEN [sig EXCEPT !.Action = ActionForIntent(sig.Intent)] ELSE sig

\* A handler without the fallback of lines 209-216.
FailOpen(c, intentFailed) == IF intentFailed THEN c ELSE c
\* Lines 209-216: when a sidecar call failed and no intent was attached, the
\* Context is marked unknown and AnalyzerFailed.
FailClosed(c, intentFailed) ==
    IF intentFailed /\ c.Intent = ""
    THEN [c EXCEPT !.Intent = IntentUnknown, !.UserIntent = IntentUnknown,
                   !.Confidence = 50, !.RiskScore = 50, !.AnalyzerFailed = TRUE]
    ELSE c

\* Lines 153-172 and 176-195: a successful sidecar call attaches its signal.
AttachReply(c, called, o, role) ==
    IF called /\ ~o.err THEN AttachIntent(c, FillAction(o.sig), role) ELSE c

\* Lines 219-226: the domain is backfilled from the keyword topic.
BackfillDomain(c, topic) ==
    IF c.Domain = "" /\ c.Signals.UserText # << >> /\ topic # ""
    THEN [c EXCEPT !.Domain = topic, !.DomainConfidence = 90]
    ELSE c

\* The decision and reason of each reply the sidecar returned, in call order.
Obtained(call1, call2, o1, o2) ==
    (IF call1 /\ ~o1.err
     THEN <<[decision |-> o1.sig.SidecarDecision, reason |-> o1.sig.SidecarReason]>>
     ELSE << >>)
    \o (IF call2 /\ ~o2.err
        THEN <<[decision |-> o2.sig.SidecarDecision, reason |-> o2.sig.SidecarReason]>>
        ELSE << >>)

\* A handler that honours only the verdict on the user text.
SidecarVerdictUserOnly(c2, call1, call2, o1, o2, topic) ==
    LET block2 == call2 /\ ~o2.err /\ o2.sig.SidecarDecision = "block"
        intentFailed == (call1 /\ o1.err) \/ (call2 /\ o2.err)
    IN [blocked |-> block2,
        reason |-> IF block2 THEN o2.sig.SidecarReason ELSE "",
        ctx |-> IF block2 THEN c2
                ELSE BackfillDomain(FailClosed(c2, intentFailed), topic),
        asked |-> call1 \/ call2,
        sideOK |-> (call1 /\ ~o1.err) \/ (call2 /\ ~o2.err),
        obtained |-> Obtained(call1, call2, o1, o2)]
\* Lines 198-227 on the Context c2 that both calls have written to.
SidecarVerdict(c2, call1, call2, o1, o2, topic) ==
    LET block1 == call1 /\ ~o1.err /\ o1.sig.SidecarDecision = "block"
        block2 == call2 /\ ~o2.err /\ o2.sig.SidecarDecision = "block"
        intentFailed == (call1 /\ o1.err) \/ (call2 /\ o2.err)
    IN [blocked |-> block1 \/ block2,
        reason |-> IF block2 THEN o2.sig.SidecarReason
                   ELSE IF block1 THEN o1.sig.SidecarReason ELSE "",
        ctx |-> IF block1 \/ block2 THEN c2
                ELSE BackfillDomain(FailClosed(c2, intentFailed), topic),
        asked |-> call1 \/ call2,
        sideOK |-> (call1 /\ ~o1.err) \/ (call2 /\ ~o2.err),
        obtained |-> Obtained(call1, call2, o1, o2)]

\* The deep path (lines 145-227) for the outcomes o1 (AnalyzeMessages) and o2
\* (Analyze of the user text).
SidecarCalls(c, call1, call2, o1, o2, topic) ==
    SidecarVerdict(AttachReply(AttachReply(c, call1, o1, "aggregate"), call2, o2, "user"),
                   call1, call2, o1, o2, topic)
SidecarStage(c, msgs, r1, r2, topic) ==
    SidecarCalls(c, Len(msgs) > 0, c.Signals.UserText # << >>,
                 callSidecar(r1), callSidecar(r2), topic)
\* The deep path is not taken.
NoSidecar(c) ==
    [blocked |-> FALSE, reason |-> "", ctx |-> c, asked |-> FALSE, sideOK |-> FALSE,
     obtained |-> << >>]

\* What the handler did for the request in flight, and the fields of the
\* Context as they were when the Role Pre-Gate was reached.
NoTrace == [parsed |-> FALSE, constrained |-> FALSE, heurIntent |-> FALSE,
            sideAsked |-> FALSE, sideOK |-> FALSE, gate |-> "skipped",
            engine |-> FALSE, reloads |-> "none", replies |-> << >>,
            role |-> "", domain |-> "", topic |-> "", intent |-> ""]

\* Lines 105-111: the keyword topic goes into the signals.
SetTopic(c, topic) ==
    IF c.Signals.UserText # << >> /\ topic # ""
    THEN [c EXCEPT !.Signals.Topic = topic] ELSE c

\* Lines 124-126: the fast path runs when the sidecar client is configured.
Heuristic(h, c, heur, topic) ==
    IF h.IntentAnalyzer /\ c.Signals.UserText # << >>
    THEN AnalyzeWithDomain(c.Signals.UserText, heur, topic) ELSE NoSignal

\* Lines 127-132
AttachDomain(c, hs) ==
    IF hs.ok /\ hs.sig.Domain # ""
    THEN [c EXCEPT !.Domain = hs.sig.Domain, !.DomainConfidence = hs.sig.DomainConfidence]
    ELSE c
\* Lines 134-141
FastPath(c, hs) ==
    IF hs.ok /\ hs.sig.Intent # ""
    THEN AttachIntent(AttachDomain(c, hs), hs.sig, "user")
    ELSE AttachDomain(c, hs)

\* Lines 121, 145: the deep path runs when the fast path found no intent.
DeepPath(h, c, hs, msgs, r1, r2, topic) ==
    IF h.IntentAnalyzer /\ ~(hs.ok /\ hs.sig.Intent # "")
    THEN SidecarStage(c, msgs, r1, r2, topic)
    ELSE NoSidecar(c)

\* Lines 198-249: the sidecar verdict, then the verdict of the Role Pre-Gate.
\* next: "respond" (403), "evaluate" (engine configured) or "forward".
Outcome(h, hs, st, gate) ==
    LET tr == [NoTrace EXCEPT
                  !.parsed = TRUE,
                  !.constrained = st.ctx.Role \in DOMAIN Roles
                                  /\ isConstrained(Roles[st.ctx.Role]),
                  !.heurIntent = hs.ok /\ hs.sig.Intent # "",
                  !.sideAsked = st.asked,
                  !.sideOK = st.sideOK,
                  !.replies = st.obtained,
                  !.role = st.ctx.Role,
                  !.domain = st.ctx.Domain,
                  !.topic = st.ctx.Signals.Topic,
                  !.intent = st.ctx.Intent,
                  !.gate = IF st.blocked THEN "skipped" ELSE gate]
    IN [next |-> IF st.blocked \/ gate = "DENY" THEN "respond"
                 ELSE IF h.CedarEngine THEN "evaluate" ELSE "forward",
        code |-> IF st.blocked THEN "sidecar_blocked"
                 ELSE IF gate = "DENY" THEN "role_policy_blocked" ELSE "",
        message |-> IF st.blocked THEN st.reason
                    ELSE IF gate = "DENY" THEN "role-enforcement" ELSE "",
        ctx |-> st.ctx, tr |-> tr]

\* Line 233: the gate runs for a request that carries a role.
RoleGate(c) == IF c.Role # "" THEN enforceRolePolicy(c) ELSE "skipped"

Decide(h, hs, st) == Outcome(h, hs, st, RoleGate(st.ctx))
ClassifyWith(h, c1, hs, msgs, r1, r2, topic) ==
    Decide(h, hs, DeepPath(h, FastPath(c1, hs), hs, msgs, r1, r2, topic))
\* Lines 98-249 on the Context c0 that carries the role and the signals.
Classification(h, c0, msgs, topic, heur, r1, r2) ==
    ClassifyWith(h, SetTopic(c0, topic), Heuristic(h, c0, heur, topic), msgs, r1, r2, topic)

\* Lines 274-278: every message is redacted in place.
RedactMessages(req, fields) ==
    [req EXCEPT !.Messages =
        [i \in 1..Len(req.Messages) |->
            [req.Messages[i] EXCEPT
                !.content = RedactPII(req.Messages[i].content,
                                      {fields[j] : j \in 1..Len(fields)})]]]
\* Lines 279-284: the redacted request replaces the body when it serializes.
Remarshal(red, m, b) == [parsedReq |-> red, body |-> IF m.err THEN b ELSE m.body]
Redacted(red, b) == Remarshal(red, Marshal(red), b)

\* Lines 271-286: the obligations of an allowed request, in order.
RECURSIVE ApplyObligations(_, _, _)
ApplyRest(obls, o) == ApplyObligations(obls, o.parsedReq, o.body)
ApplyObligations(obls, req, b) ==
    IF obls = << >> THEN [parsedReq |-> req, body |-> b]
    ELSE IF Head(obls).Type = "REDACT" /\ req.ok
         THEN ApplyRest(Tail(obls), Redacted(RedactMessages(req, Head(obls).Fields), b))
         ELSE ApplyObligations(Tail(obls), req, b)

\* Lines 334-366: the egress scan.  TRUE when the response must be blocked.
EgressBlocked(up) ==
    LET responseContent == IF up.parses /\ Len(up.choices) > 0 THEN up.choices[1] ELSE << >>
    IN responseContent # << >> /\ DetectPII(responseContent) \cap {"ssn", "credit_card"} # {}

\* ------------------------------------------------------------------------
\* State
\* ------------------------------------------------------------------------
VARIABLES
    hc,             \* HandlerConfig: which collaborators are non-nil
    policyFile,     \* content of the file at Engine.PolicyPath
    policySet,      \* Engine.policySet (atomic pointer)
    policyVersion,  \* Engine.policyVersion (atomic pointer)
    rl,             \* the debounced reload callback: pc, parsed data, old version
    timerArmed,     \* a debounce timer is pending
    fileEvents,     \* number of file events so far
    watch,          \* timers and callbacks of watchLoop
    guardrailYaml,  \* what guardrail.yaml holds on disk
    pc,             \* position of the in-flight request in Handler
    ctx,            \* analyzer.Context of the request
    parsedReq,      \* the normalized request
    body,           \* the body that will be forwarded
    tr,             \* which stages ran for the request
    result,         \* cedar.EvaluationResult
    evalPS,         \* the policy set the evaluation loaded
    headers,        \* response headers set so far
    resp,           \* status and error code written to the client
    written,        \* chunks written to the client body, in order
    sent,           \* bodies handed to Provider.ForwardRequest
    upstream,       \* the provider's response
    calls,          \* the calls made on a Context a caller holds, in order
    cache,          \* IntentAnalyzer.cache
    gr,             \* the goroutines inside IntentAnalyzer.callSidecar
    limiter,        \* RateLimitGuardrail: counters, mu, the goroutines in Execute
    canary,         \* CanaryDetector.tokens and the last Check
    heap,           \* the IntentSignal objects and who holds a pointer to them
    hitl,           \* HITLManager.requests, the clock and the waiting callers
    breaker         \* CircuitBreaker and the goroutines in Execute

engVars == <<policyFile, policySet, policyVersion, rl, timerArmed, fileEvents, watch, guardrailYaml>>
reqVars == <<pc, ctx, parsedReq, body, tr, result, evalPS, headers, resp, written, sent, upstream>>
compVars == <<limiter, canary, heap, hitl, breaker>>
anVars == <<cache, gr, compVars>>
vars == <<hc, engVars, reqVars, calls, anVars>>

\* The goroutines that classify at the same time, and the cache keys of
\* their requests ("" for a request with neither text nor messages).
Goroutines == {"g1", "g2", "g3"}
CacheKeys == {"", "k1", "k2", "k3", "k4", "k5"}
\* IntentAnalyzer.maxEntries, the capacity of the cache.
maxEntries == 3
\* NewIntentAnalyzer: an empty map; dropped notes that the map was replaced.
NoCache == [entries |-> {}, dropped |-> FALSE]
Outside == [pc |-> "outside", key |-> ""]

NoHeaders == [PreStreamEnforced |-> "unset", PolicyVersion |-> "unset",
              Blocked |-> "unset", OutputBlocked |-> "unset", RequestID |-> "unset"]
NoResp == [status |-> 0, code |-> "", message |-> ""]
NoBody == [parses |-> FALSE, messages |-> << >>]
RlIdle == [pc |-> "idle", ps |-> "nil", version |-> "", oldVersion |-> "",
           oldPS |-> "nil", last |-> "none"]

\* watchLoop has seen no event: no timer, no callback.  timers are the
\* pending debounce timers, waiting the callbacks blocked at
\* reloadLock.Lock(), running those past it; writes, bursts, runs and stores
\* count the Write/Create events, the events that found no timer pending,
\* the callbacks started and the versions stored.
NoWatch == [timers |-> 0, waiting |-> 0, running |-> 0,
            writes |-> 0, bursts |-> 0, runs |-> 0, stores |-> 0, stopped |-> FALSE]

HandlerConfigs == [IntentAnalyzer : BOOLEAN, CedarEngine : BOOLEAN]

\* NewEngineWithLogger succeeded on a readable, well-formed policy file.
\* RateLimitConfig and the clock read by time.Now(), in ticks.
RequestsPerMinute == 2
RequestsPerHour == 3
Minute == 1
Hour == 2
MaxClock == 2
RateKeys == {"global", "user:anonymous"}
\* A key that g.counters does not hold.
NoCounter == [exists |-> FALSE, minuteCount |-> 0, hourCount |-> 0, minuteReset |-> 0, hourReset |-> 0]
NoPassed == [minute |-> 0, hour |-> 0]
OutsideExecute == [pc |-> "outside", key |-> "", now |-> 0]
\* NewRateLimitGuardrail: no counters, mu unlocked.
NewRateLimitGuardrail ==
    [counters |-> [k \in RateKeys |-> NoCounter], mu |-> "", clock |-> 0, last |-> "",
     passed |-> [k \in RateKeys |-> NoPassed],
     reqs |-> [g \in Goroutines |-> OutsideExecute]]

\* NewCanaryDetector: no tokens; last is the last call of Check.
NoCheck == [requestID |-> "", text |-> << >>, known |-> {}, found |-> FALSE]
CanaryRequests == {"r1", "r2"}
NewCanaryDetector == [tokens |-> [r \in CanaryRequests |-> ""], last |-> NoCheck]

\* The IntentSignal values that callSidecar has decoded, by address; the
\* address 0 is nil. cached is the map of IntentAnalyzer.cache, held is the
\* pointer a request's goroutine got from callSidecar and where it is.
MaxObjs == 3
NoObj == [Intent |-> "", Action |-> ""]
NoHold == [obj |-> 0, pc |-> "none"]
NewHeap ==
    [objs |-> [o \in 1..MaxObjs |-> NoObj], next |-> 1,
     cached |-> [k \in CacheKeys |-> 0],
     held |-> [g \in Goroutines |-> NoHold]]

\* HITLConfig.DefaultTimeout, the checkInterval of WaitForApproval and the
\* last value of the clock, in ticks.
DefaultTimeout == 2
checkInterval == 2
HitlMaxClock == 6
\* The goroutines that call Approve, Deny and GetRequest.
HitlCallers == {"g1", "g2"}
NoRequest == [exists |-> FALSE, Status |-> "", ExpiresAt |-> 0]
NoWait == [pc |-> "none", left |-> 0, startedAt |-> 0, returnedAt |-> 0]
\* NewHITLManager: no requests. req is the one request the model follows,
\* at is where each caller is inside its call, wait is WaitForApproval.
NewHITLManager ==
    [clock |-> 0, req |-> NoRequest, at |-> [g \in HitlCallers |-> "idle"], wait |-> NoWait]

\* CircuitBreakerConfig, with Enabled true; MaxFailures caps the failures
\* counter of the model.
FailureThreshold == 2
SuccessThreshold == 2
MaxConcurrent == 2
MaxFailures == 3
OutsideBreaker == [pc |-> "outside", tmp |-> 0]
\* NewCircuitBreaker: closed, all counters zero. timedOut: more than
\* config.Timeout has passed since lastFailure.
NewCircuitBreaker ==
    [state |-> "closed", failures |-> 0, successes |-> 0, concurrent |-> 0,
     timedOut |-> FALSE, in |-> [g \in Goroutines |-> OutsideBreaker]]

Init ==
    /\ hc \in HandlerConfigs
    /\ policyFile \in DOMAIN PolicyDocs
    /\ policySet = policyFile
    /\ policyVersion = VersionOf(policyFile)
    /\ rl = RlIdle
    /\ timerArmed = FALSE
    /\ fileEvents = 0
    /\ watch = NoWatch
    /\ guardrailYaml = "loaded"
    /\ pc = "idle"
    /\ ctx = NewContext("")
    /\ parsedReq = ParseRequest(NoBody)
    /\ body = NoBody
    /\ tr = NoTrace
    /\ result = NoResult
    /\ evalPS = "nil"
    /\ headers = NoHeaders
    /\ resp = NoResp
    /\ written = << >>
    /\ sent = << >>
    /\ upstream = NoUpstream
    /\ calls = << >>
    /\ cache = NoCache
    /\ gr = [g \in Goroutines |-> Outside]
    /\ limiter = NewRateLimitGuardrail
    /\ canary = NewCanaryDetector
    /\ heap = NewHeap
    /\ hitl = NewHITLManager
    /\ breaker = NewCircuitBreaker

\* sendErrorResponse
sendErrorResponse(h, status, code, message) ==
    /\ headers' = [h EXCEPT !.RequestID = "uuid"]
    /\ resp' = [status |-> status, code |-> code, message |-> message]
    /\ written' = Append(written, "error_json")
    /\ pc' = "done"

\* ------------------------------------------------------------------------
\* Handler actions
\* ------------------------------------------------------------------------
\* Lines 44-57: the body cannot be read.
ReceiveUnreadable ==
    /\ pc = "idle"
    /\ sendErrorResponse(headers, 400, "invalid_request", "Failed to read request body")
    /\ UNCHANGED <<hc, calls, anVars, engVars, ctx, parsedReq, body, tr, result, evalPS, sent, upstream>>

\* Lines 44-96: a request arrives, is parsed, and its Context gets the role
\* header and the deterministic signals.  A body that does not parse skips
\* the whole block of lines 74-288.
Receive(bodies, roles) ==
    /\ pc = "idle"
    /\ \E b \in bodies :
       \E p \in {ParseRequest(b)} :
       \E signals \in {Aggregate(p.Messages)} :
          /\ parsedReq' = p
          /\ body' = b
          /\ IF p.ok
             THEN /\ \E role \in roles :
                        ctx' = [NewContext(role) EXCEPT !.Signals = signals]
                  /\ tr' = [NoTrace EXCEPT !.parsed = TRUE]
                  /\ pc' = "classify"
             ELSE /\ pc' = "forward"
                  /\ UNCHANGED <<ctx, tr>>
    /\ UNCHANGED <<hc, calls, anVars, engVars, result, evalPS, headers, resp, written, sent, upstream>>

\* The replies the sidecar is asked for, given what the fast path found.
Replies(needed, replies) == IF needed THEN replies ELSE {SidecarErr}

\* Lines 98-249: topic, heuristic intent, sidecar, sidecar verdict and Role
\* Pre-Gate.  The Context lives in the block that ends at line 288: when no
\* engine is configured it is gone once the gate has passed.
Classify(topics, heurs, replies) ==
    /\ pc = "classify"
    /\ LET msgs == parsedReq.Messages
           userText == ctx.Signals.UserText
           speaks == ~AllSpaces(userText)
       IN
       \E topic \in (IF speaks THEN topics ELSE {""}) :
       \E heur \in (IF speaks /\ hc.IntentAnalyzer THEN heurs ELSE {"none"}) :
       LET deep == hc.IntentAnalyzer /\ heur = "none" /\ (userText = << >> \/ speaks)
       IN
       \E r1 \in Replies(deep /\ Len(msgs) > 0, replies) :
       \E r2 \in Replies(deep /\ userText # << >>, replies) :
       \E p \in {Classification(hc, ctx, msgs, topic, heur, r1, r2)} :
          /\ tr' = p.tr
          /\ ctx' = IF p.next = "evaluate" THEN p.ctx ELSE NewContext("")
          /\ IF p.next = "respond"
             THEN sendErrorResponse([headers EXCEPT !.Blocked = "true"], 403, p.code, p.message)
             ELSE /\ pc' = p.next
                  /\ UNCHANGED <<headers, resp, written>>
    /\ UNCHANGED <<hc, calls, anVars, engVars, parsedReq, body, result, evalPS, sent, upstream>>

\* Line 249 / engine.go 201-322: the engine loads the policy set and decides.
Evaluate ==
    /\ pc = "evaluate"
    /\ \E first \in FirstReasons(policySet, ctx) :
          result' = EvaluateContextWithResult(policySet, ctx, first)
    /\ evalPS' = policySet
    /\ tr' = [tr EXCEPT !.engine = TRUE, !.reloads = rl.last]
    /\ pc' = "enforce"
    /\ UNCHANGED <<hc, calls, anVars, engVars, ctx, parsedReq, body, headers, resp, written, sent, upstream>>

\* Lines 253-288: audit headers (PolicyVersion() loads the version pointer),
\* the DENY short-circuit and the obligations; the Context goes out of scope.
Enforce ==
    /\ pc = "enforce"
    /\ LET h == [headers EXCEPT !.PreStreamEnforced = "true", !.PolicyVersion = policyVersion]
       IN IF result.Decision = "DENY"
          THEN /\ sendErrorResponse([h EXCEPT !.Blocked = "true"], 403, "guardrail_blocked",
                                    result.Reason)
               /\ UNCHANGED <<parsedReq, body>>
          ELSE \E o \in {ApplyObligations(result.Obligations, parsedReq, body)} :
                  /\ headers' = h
                  /\ parsedReq' = o.parsedReq
                  /\ body' = o.body
                  /\ pc' = "forward"
                  /\ UNCHANGED <<resp, written>>
    /\ ctx' = NewContext("")
    /\ UNCHANGED <<hc, calls, anVars, engVars, tr, result, evalPS, sent, upstream>>

\* Lines 290-332: the body goes to the provider and its response is read.
Forward(upstreams) ==
    /\ pc = "forward"
    /\ sent' = Append(sent, body)
    /\ \E up \in upstreams :
          IF up.err # ""
          THEN /\ sendErrorResponse(headers, 502, "provider_error",
                                    "Failed to connect to provider")
               /\ UNCHANGED upstream
          ELSE /\ upstream' = up
               /\ pc' = "egress"
               /\ UNCHANGED <<headers, resp, written>>
    /\ UNCHANGED <<hc, calls, anVars, engVars, ctx, parsedReq, body, tr, result, evalPS>>

\* A relay that ignores the verdict of the egress scan.
EgressWriteAlways(blocked) == IF blocked THEN <<"upstream_body">> ELSE <<"upstream_body">>
\* What the client is sent after the egress scan (lines 349-380).
EgressWrite(blocked) == IF blocked THEN <<"error_json">> ELSE <<"upstream_body">>

\* Lines 334-386: egress scan, then the relay of the upstream response.
Egress ==
    /\ pc = "egress"
    /\ \E blocked \in {EgressBlocked(upstream)} :
          /\ headers' = [headers EXCEPT !.RequestID = "uuid",
                                        !.OutputBlocked = IF blocked THEN "true" ELSE @]
          /\ resp' = IF blocked
                     THEN [status |-> 403, code |-> "output_guardrail_blocked",
                           message |-> "Response contained sensitive data and was blocked"]
                     ELSE [status |-> 200, code |-> "", message |-> ""]
          /\ written' = written \o EgressWrite(blocked)
    /\ pc' = "done"
    /\ UNCHANGED <<hc, calls, anVars, engVars, ctx, parsedReq, body, tr, result, evalPS, sent, upstream>>

\* The request is over; the next one starts from a fresh Context.
Finish ==
    /\ pc = "done"
    /\ pc' = "idle"
    /\ ctx' = NewContext("")
    /\ parsedReq' = ParseRequest(NoBody)
    /\ body' = NoBody
    /\ tr' = NoTrace
    /\ result' = NoResult
    /\ evalPS' = "nil"
    /\ headers' = NoHeaders
    /\ resp' = NoResp
    /\ written' = << >>
    /\ sent' = << >>
    /\ upstream' = NoUpstream
    /\ UNCHANGED <<hc, calls, anVars, engVars>>

\* ------------------------------------------------------------------------
\* Hot reload (engine.go watchLoop, reload)
\* ------------------------------------------------------------------------
\* A watch loop that starts a timer per event and stops none.
ResetTimerNoStop(timers) == timers + 1
\* Lines 124-127: debounceTimer.Stop() takes the pending timer away, then
\* time.AfterFunc starts one.
ResetTimer(timers) == 1

\* The policy file is rewritten: a Write/Create event (re)arms the timer,
\* as long as watchLoop runs (lines 115-143).
FileWrite(contents) ==
    /\ hc.CedarEngine
    /\ fileEvents < MaxFileEvents
    /\ \E f \in contents : policyFile' = f
    /\ fileEvents' = fileEvents + 1
    /\ IF watch.stopped
       THEN UNCHANGED <<timerArmed, watch>>
       ELSE /\ timerArmed' = TRUE
            /\ watch' = [watch EXCEPT !.timers = ResetTimer(@), !.writes = @ + 1,
                                      !.bursts = IF watch.timers = 0 THEN @ + 1 ELSE @]
    /\ UNCHANGED <<hc, calls, anVars, policySet, policyVersion, rl, guardrailYaml, reqVars>>

\* The file is removed: not a Write/Create event, no timer.
FileRemove ==
    /\ hc.CedarEngine
    /\ fileEvents < MaxFileEvents
    /\ policyFile # "missing"
    /\ policyFile' = "missing"
    /\ fileEvents' = fileEvents + 1
    /\ UNCHANGED <<hc, calls, anVars, policySet, policyVersion, rl, timerArmed, watch, guardrailYaml, reqVars>>

\* Line 127: 500 ms after the event that started it the timer fires and
\* its callback starts in a goroutine of its own, at reloadLock.Lock().
TimerFire ==
    /\ watch.timers > 0
    /\ watch' = [watch EXCEPT !.timers = @ - 1, !.waiting = @ + 1, !.runs = @ + 1]
    /\ timerArmed' = (watch'.timers > 0)
    /\ UNCHANGED <<hc, calls, anVars, policyFile, policySet, policyVersion, rl, fileEvents, guardrailYaml, reqVars>>

\* A callback that does not take the lock.
reloadLockIgnored(r) == TRUE
\* reloadLock.Lock() returns when no callback holds the lock.
reloadLockFree(r) == r.pc = "idle"

\* A callback gets reloadLock, notes the old version and reads and parses
\* the file (reload, lines 152-179); when that fails it logs and returns.
ReloadRead ==
    /\ watch.waiting > 0
    /\ reloadLockFree(rl)
    /\ \E r \in {reload(policyFile)} :
          /\ rl' = IF r.err
                   THEN [RlIdle EXCEPT !.last = "failed", !.oldVersion = policyVersion,
                                       !.oldPS = policySet]
                   ELSE [pc |-> "storePS", ps |-> r.ps, version |-> r.version,
                         oldVersion |-> policyVersion, oldPS |-> policySet, last |-> rl.last]
          /\ watch' = [watch EXCEPT !.waiting = @ - 1,
                                    !.running = IF r.err THEN @ ELSE @ + 1]
    /\ UNCHANGED <<hc, calls, anVars, policyFile, policySet, policyVersion, timerArmed, fileEvents, guardrailYaml, reqVars>>

\* Line 182: e.policySet.Store(ps)
ReloadStorePS ==
    /\ rl.pc = "storePS"
    /\ policySet' = rl.ps
    /\ rl' = [rl EXCEPT !.pc = "storeVersion"]
    /\ UNCHANGED <<hc, calls, anVars, policyFile, policyVersion, timerArmed, fileEvents, watch, guardrailYaml, reqVars>>

\* Line 183: e.policyVersion.Store(&version); the callback returns.
ReloadStoreVersion ==
    /\ rl.pc = "storeVersion"
    /\ policyVersion' = rl.version
    /\ rl' = [RlIdle EXCEPT !.last = "ok", !.oldVersion = rl.oldVersion, !.oldPS = rl.oldPS]
    /\ watch' = [watch EXCEPT !.running = @ - 1, !.stores = @ + 1]
    /\ UNCHANGED <<hc, calls, anVars, policyFile, policySet, timerArmed, fileEvents, guardrailYaml, reqVars>>

\* guardrail.yaml as main loaded it into hc.Policy (part_020 49-55), and
\* rewritten with recruitment taken out of the analyst's allowed_topics.
GuardrailFiles ==
    [loaded |-> Roles,
     narrowed |-> [Roles EXCEPT !.analyst.AllowedTopics = {"hr"}]]
\* An operator rewrites guardrail.yaml while the server runs.  main read
\* the file once, before it built the handler; nothing watches it.
GuardrailWrite ==
    /\ guardrailYaml = "loaded"
    /\ guardrailYaml' = "narrowed"
    /\ UNCHANGED <<hc, calls, anVars, policyFile, policySet, policyVersion, rl, timerArmed,
                   fileEvents, watch, reqVars>>

\* ------------------------------------------------------------------------
\* Callers of the Context methods (handler.go 135-187, cmd/mcp/main.go
\* 364-376): a caller builds a Context and attaches signals to it, one call
\* after the other.
\* ------------------------------------------------------------------------
MaxCalls == 3
\* The Context the next AttachIntent call is made on.
Held == IF calls = << >> THEN NewContext("") ELSE calls[Len(calls)].after
\* c.AttachIntent(sig, role)
AttachIntentCall(sigs, roles) ==
    /\ Len(calls) < MaxCalls
    /\ \E sig \in sigs : \E role \in roles :
          calls' = Append(calls, [sig |-> sig, role |-> role, before |-> Held,
                                  after |-> AttachIntent(Held, sig, role)])
    /\ UNCHANGED <<hc, anVars, engVars, reqVars>>

\* The Context the next AttachSignals call is made on.
HeldSignals == IF calls = << >> THEN [Signals |-> ZeroSignals] ELSE calls[Len(calls)].after
\* c.AttachSignals(signals)
AttachSignalsCall(inputs) ==
    /\ Len(calls) < MaxCalls
    /\ \E signals \in inputs :
          calls' = Append(calls, [signals |-> signals, before |-> HeldSignals,
                                  after |-> AttachSignals(HeldSignals, signals)])
    /\ UNCHANGED <<hc, anVars, engVars, reqVars>>

\* ------------------------------------------------------------------------
\* Specifications
\* ------------------------------------------------------------------------
AllTopics == Topics \cup {""}
Heuristics == {"none", "greeting"}
QueryReply == [err |-> FALSE, sig |-> Signal("info.query", 80, "query", "recruitment", 90, "allow", "")]

\* The enforcement pipeline with every collaborator configuration, role,
\* topic, heuristic and sidecar outcome, under the policy loaded at start-up.
GateTexts == {<< >>, TxtHello, TxtSSN}
Next ==
    \/ ReceiveUnreadable
    \/ Receive(Bodies(GateTexts, 1), RoleHeaders)
    \/ Classify(AllTopics, Heuristics, SidecarReplies)
    \/ Evaluate
    \/ Enforce
    \/ Forward(Upstreams({TxtHello, TxtSSN}, 1))
    \/ Egress
    \/ Finish

Spec == Init /\ [][Next]_vars

\* Redaction: conversations of up to MaxMsgs messages over texts that carry
\* every PII kind, alone and run together.
ReqTexts == {TxtHello, TxtMailPhone, TxtRunOn, TxtCard}
InitRedact == Init /\ hc.CedarEngine
NextRedact ==
    \/ Receive(Bodies(ReqTexts, MaxMsgs), {""})
    \/ Classify({""}, {"none"}, {QueryReply})
    \/ Evaluate
    \/ Enforce
    \/ Forward({[err |-> "", parses |-> TRUE, choices |-> <<TxtHello>>]})
    \/ Egress
    \/ Finish

SpecRedact == InitRedact /\ [][NextRedact]_vars

\* Egress: provider responses of up to MaxChoices choices.
RespTexts == {TxtHello, TxtSSN, TxtEmail, TxtCard}
NextEgress ==
    \/ Receive(Bodies({TxtHello}, 1), {""})
    \/ Classify({""}, {"none"}, {QueryReply})
    \/ Evaluate
    \/ Enforce
    \/ Forward(Upstreams(RespTexts, MaxChoices))
    \/ Egress
    \/ Finish

SpecEgress == Init /\ [][NextEgress]_vars

\* Requests in flight while the policy file changes under a running
\* watcher: the engine is configured and a few plain requests suffice.
ReloadBodies ==
    {[parses |-> TRUE, messages |-> <<[role |-> "user", content |-> t]>>] :
        t \in {TxtHello, TxtMailPhone}}
InitReload == Init /\ hc.CedarEngine /\ hc.IntentAnalyzer
NextReload ==
    \/ Receive(ReloadBodies, {""})
    \/ Classify({""}, {"none"}, {QueryReply})
    \/ Evaluate
    \/ Enforce
    \/ Forward({[err |-> "", parses |-> TRUE, choices |-> <<TxtHello>>]})
    \/ Egress
    \/ Finish
    \/ FileWrite(FileContents \ {"missing"})
    \/ FileRemove
    \/ TimerFire
    \/ ReloadRead
    \/ ReloadStorePS
    \/ ReloadStoreVersion

SpecReload == InitReload /\ [][NextReload]_vars

\* The signals the callers attach: every one carries an intent of the
\* taxonomy (Analyze and callSidecar return no other) and a confidence in
\* 0..100; the roles are those the callers pass.
AttachedSignals ==
    {Signal(i, conf, "", "", 0, "", "") :
        i \in {"info.query", "code.exploit", IntentUnknown}, conf \in {30, 80}}
AttachRoles == {"user", "system", "aggregate"}
InitAttach == Init /\ hc.CedarEngine /\ hc.IntentAnalyzer /\ policyFile = "PolA"
NextAttach == AttachIntentCall(AttachedSignals, AttachRoles)
SpecAttach == InitAttach /\ [][NextAttach]_vars

\* Aggregator passes: PII and capability lists with repeats and overlaps.
SignalInputs ==
    {Signals(pii, tox, tox > 0, IF tox > 0 THEN "hr" ELSE "", caps) :
        pii \in {<< >>, <<"email">>, <<"ssn", "email">>, <<"email", "email">>},
        tox \in {0, 70},
        caps \in {<< >>, <<"shell">>, <<"net", "shell">>}}
NextSignals == AttachSignalsCall(SignalInputs)
SpecSignals == InitAttach /\ [][NextSignals]_vars

\* ------------------------------------------------------------------------
\* Properties
\* ------------------------------------------------------------------------
DenyCodes == {"sidecar_blocked", "role_policy_blocked", "guardrail_blocked",
              "output_guardrail_blocked"}
Forwarded == sent # << >>
Responded == pc = "done"
ObligationTypes == {result.Obligations[i].Type : i \in 1..Len(result.Obligations)}
HasToken(text) == \E i \in 1..Len(text) : text[i] = "["

\* C1: whenever the response is one of the four denials (sidecar block, Role
\* Pre-Gate, engine DENY, egress block), no chunk of the provider's response
\* has been written to the client.
C1_DenialWritesNoUpstreamByte ==
    resp.code \in DenyCodes => \A i \in 1..Len(written) : written[i] # "upstream_body"
\* The provider answered with an SSN and the egress scan blocked it.
C1_Witness ==
    /\ Responded /\ resp.code = "output_guardrail_blocked"
    /\ Forwarded /\ upstream.parses /\ written = <<"error_json">>

\* C2: the version reported in X-Guardrail-Policy-Version is the version of
\* the policy set the request was evaluated with.
C2_OneVersionPerRequest ==
    (tr.engine /\ headers.PolicyVersion # "unset")
        => headers.PolicyVersion = VersionOf(evalPS)

C4_ErrorsAreDenied ==
    (pc \notin {"idle", "classify"} /\ resp.code # "invalid_request"
     /\ (~tr.parsed \/ (tr.sideAsked /\ ~tr.sideOK)))
        => (~Forwarded /\ (Responded => resp.status = 403))

\* C5: once the engine allowed the request with REDACT obligations, no
\* message of a body handed to the provider matches the pattern of a kind
\* named in the fields of such an obligation.
C5_RedactedKindsAbsent ==
    (tr.engine /\ result.Decision = "ALLOW")
        => \A o \in 1..Len(result.Obligations) :
              result.Obligations[o].Type = "REDACT" =>
                 \A f \in 1..Len(result.Obligations[o].Fields) :
                 \A i \in 1..Len(sent) :
                 \A m \in 1..Len(sent[i].messages) :
                    LET k == result.Obligations[o].Fields[f]
                    IN k \in PIIKinds
                          => ~MatchString(PIIRegex(k), sent[i].messages[m].content)
\* A redacted conversation reached the provider.
C5_Witness ==
    /\ tr.engine /\ result.Decision = "ALLOW" /\ "REDACT" \in ObligationTypes
    /\ Forwarded
    /\ \E m \in 1..Len(sent[1].messages) : HasToken(sent[1].messages[m].content)

\* C6: a request the engine allowed with a RequireApproval obligation is
\* answered 403 and never handed to the provider.
C6_ApprovalIsDenied ==
    (tr.engine /\ result.Decision = "ALLOW" /\ "RequireApproval" \in ObligationTypes)
        => (~Forwarded /\ pc \notin {"forward", "egress"}
            /\ (Responded => resp.status = 403))

C9_NoEngineNoForward ==
    ~hc.CedarEngine => (~Forwarded /\ pc \notin {"forward", "egress"})

\* C10: a reload whose read or parse fails leaves the policy set and the
\* version as they were and stores nothing; a request evaluated after it is
\* evaluated with the policy set that was active before it.
C10_FailedReloadKeepsPolicy ==
    [][ /\ (watch'.waiting < watch.waiting /\ policyFile \notin DOMAIN PolicyDocs)
            => (policySet' = policySet /\ policyVersion' = policyVersion
                /\ rl'.pc = "idle")
        /\ (pc = "evaluate" /\ pc' = "enforce" /\ rl.last = "failed" /\ rl.pc = "idle")
            => (evalPS' = rl.oldPS /\ policyVersion = rl.oldVersion) ]_vars
\* A request was evaluated after a failed reload.
C10_Witness ==
    /\ pc = "enforce" /\ tr.reloads = "failed" /\ rl.last = "failed" /\ rl.pc = "idle"
    /\ policyFile \notin DOMAIN PolicyDocs /\ evalPS = rl.oldPS

\* C11: when an engine is configured, a request whose body the provider
\* adapter could not parse is evaluated by the engine before its body is
\* handed to the provider.
C11_ParseFailureStillEvaluated ==
    (hc.CedarEngine /\ ~tr.parsed /\ Forwarded) => tr.engine

GateDomain == IF tr.domain # "" THEN tr.domain ELSE tr.topic
RoleIntent(c, role) == IF role = "user" THEN c.UserIntent ELSE c.SystemIntent
SignalRisk(call) == RiskFromIntent(call.sig.Intent, call.sig.Confidence)
StoredBy(n) == CHOOSE m \in 1..(n - 1) :
                  /\ calls[m].role = calls[n].role
                  /\ \A k \in (m + 1)..(n - 1) : calls[k].role # calls[n].role
C15_RoleIntentOverwrittenOnlyByHigherRisk ==
    \A n \in 1..Len(calls) :
        (/\ calls[n].role \in {"user", "system"}
         /\ RoleIntent(calls[n].before, calls[n].role) # ""
         /\ RoleIntent(calls[n].after, calls[n].role)
                # RoleIntent(calls[n].before, calls[n].role))
            => SignalRisk(calls[n]) > SignalRisk(calls[StoredBy(n)])

\* C16: when the signal of the second call has the derived risk of the
\* signal of the first, the Context keeps the intent and the confidence of
\* the first.
C16_FirstWriteWinsTie ==
    (Len(calls) >= 2 /\ SignalRisk(calls[2]) = SignalRisk(calls[1]))
        => /\ calls[2].after.Intent = calls[1].sig.Intent
           /\ calls[2].after.Confidence = calls[1].sig.Confidence

\* C17: after the first call has set the intent and the risk score of the
\* Context, every later call leaves both as the first call set them.
C17_WriteOnceIntentAndRisk ==
    \A n \in 2..Len(calls) :
        /\ calls[n].after.Intent = calls[1].after.Intent
        /\ calls[n].after.RiskScore = calls[1].after.RiskScore

C18_IntentInTaxonomy ==
    /\ pc = "evaluate" => ctx.Intent \in Taxonomy
    /\ (tr.parsed /\ tr.gate # "skipped") => tr.intent \in Taxonomy

\* C20: on ALLOW the obligations of the result are the annotations of all
\* the satisfied permit rules that carry one, in the order of the document.
ContributingObligations(ps, c) ==
    LET keep == SelectSeq([i \in 1..Len(ps) |-> i],
                          LAMBDA i : /\ ps[i].effect = "permit"
                                     /\ Satisfied(ps[i], CedarRecord(c))
                                     /\ ps[i].obligation # "")
    IN [k \in 1..Len(keep) |->
           [Type |-> ps[keep[k]].obligation, Fields |-> ps[keep[k]].fields]]
C20_ObligationsOfAllContributingRules ==
    (pc = "enforce" /\ result.Decision = "ALLOW")
        => result.Obligations = ContributingObligations(PolicyDocs[evalPS], ctx)

\* C21: for a fixed policy and a fixed request the evaluation returns the
\* same decision, the same reason and the same obligations in the same
\* order on every run: whatever entry of the diagnostics the engine finds
\* first, the result is the one the request got.
C21_EvaluateDeterministic ==
    pc = "enforce" =>
        \A first \in FirstReasons(evalPS, ctx) :
            LET again == EvaluateContextWithResult(evalPS, ctx, first)
            IN /\ again.Decision = result.Decision
               /\ again.Reason = result.Reason
               /\ again.Obligations = result.Obligations

\* The names of the record of engine.go 252-274.
CedarContextKeys ==
    {"intent", "user_intent", "system_intent", "risk_score", "confidence",
     "pii", "toxicity", "prompt_injection", "topic", "capabilities",
     "streaming", "tokens", "provider", "agent_state", "source_data"}
\* The name a Context field has in the record, in the spelling the engine
\* uses for the fields it passes (UserIntent is user_intent).
CedarName ==
    [Role |-> "role", Intent |-> "intent", UserIntent |-> "user_intent",
     SystemIntent |-> "system_intent", RiskScore |-> "risk_score",
     Confidence |-> "confidence", Action |-> "action",
     ActionConfidence |-> "action_confidence", Domain |-> "domain",
     DomainConfidence |-> "domain_confidence", AnalyzerFailed |-> "analyzer_failed"]
\* The attributes of the context the compiled role rules read
\* (compiler.go 383, 394, 426, 436).
RoleRuleKeys == {"role", "intent", "topic"}

\* C22: the context record passed to rule evaluation carries every Context
\* field, among them the role, the action, the domain, the action and
\* domain confidences and the analyzer-failed flag, so that a rule over any
\* of them can match; in particular every attribute a compiled role rule
\* reads is in the record.
C22_ContextRecordHasEveryField ==
    pc = "evaluate" =>
        /\ DOMAIN CedarRecord(ctx) \subseteq CedarContextKeys
        /\ \A f \in DOMAIN ctx \ {"Signals"} : CedarName[f] \in CedarContextKeys
        /\ RoleRuleKeys \subseteq CedarContextKeys

\* ------------------------------------------------------------------------
\* Policy compiler (policy/compiler.go)
\* ------------------------------------------------------------------------
\* The orders in which a range over a Go map with key set S can visit it.
RECURSIVE Orders(_)
Orders(S) ==
    IF S = {} THEN {<< >>}
    ELSE UNION {{<<k>> \o rest : rest \in Orders(S \ {k})} : k \in S}

IntentRule(action, threshold) == [Action |-> action, Threshold |-> threshold]
\* compileIntents, loop body: one forbid per intent whose action is "block".
IntentBlock(name, rule) ==
    IF rule.Action # "block" THEN << >>
    ELSE << [rule |-> "intent", name |-> name, arg |-> rule.Threshold] >>

\* compileSourceTrust, loop body: one forbid per source that blocks intents.
SourceBlock(source, rule) ==
    IF rule.BlockIntents = {} THEN << >>
    ELSE << [rule |-> "source", name |-> source, arg |-> rule.BlockIntents] >>

\* compileRoles, loop body: per role, the explicit intent blocks, the topic
\* allowlist and the explicit topic blocks, each when the list is not empty.
RoleBlock(name, role) ==
    (IF role.BlockIntents = {} THEN << >>
     ELSE << [rule |-> "role_block_intents", name |-> name, arg |-> role.BlockIntents] >>)
    \o (IF role.AllowedTopics = {} THEN << >>
        ELSE << [rule |-> "role_topics", name |-> name, arg |-> role.AllowedTopics] >>)
    \o (IF role.BlockTopics = {} THEN << >>
        ELSE << [rule |-> "role_block_topics", name |-> name, arg |-> role.BlockTopics] >>)

RECURSIVE Emit(_, _, _)
\* What a range loop over the map m writes when it visits the keys in the
\* given order.
Emit(section, order, m) ==
    IF order = << >> THEN << >>
    ELSE LET k == Head(order)
         IN (CASE section = "intents" -> IntentBlock(k, m[k])
               [] section = "sources" -> SourceBlock(k, m[k])
               [] section = "roles" -> RoleBlock(k, m[k]))
            \o Emit(section, Tail(order), m)
compileIntents(intents, order) == Emit("intents", order, intents)
compileSourceTrust(sources, order) == Emit("sources", order, sources)
compileRoles(roles, order) == Emit("roles", order, roles)

Fixed(section) == << [rule |-> section, name |-> "", arg |-> 0] >>
\* Compile: the header with the authoring version, then the sections in
\* their fixed order; io, so and ro are the orders in which the three map
\* ranges visit their keys.
Compile(p, io, so, ro) ==
    << [rule |-> "header", name |-> p.Version, arg |-> 0] >>
    \o Fixed("default_permit") \o Fixed("safety")
    \o compileIntents(p.Intents, io)
    \o Fixed("pii") \o Fixed("capabilities") \o Fixed("fail_safe") \o Fixed("agent_limits")
    \o compileSourceTrust(p.SourceTrust, so)
    \o (IF DOMAIN p.Roles = {} THEN << >> ELSE compileRoles(p.Roles, ro))

\* The authoring policy of the role table, and one with a single intent.
GuardrailPolicies ==
    { [Version |-> "1.0",
       Intents |-> [code_exploit |-> IntentRule("block", 40),
                    sys_control |-> IntentRule("block", 50),
                    info_query |-> IntentRule("allow", 0)],
       SourceTrust |-> [untrusted_web |-> [BlockIntents |-> {"code.exploit"}]],
       Roles |-> Roles],
      [Version |-> "2.0",
       Intents |-> [code_exploit |-> IntentRule("block", 40)],
       SourceTrust |-> [untrusted_web |-> [BlockIntents |-> {}]],
       Roles |-> [guest |-> Roles.guest]] }

\* policy.Compile(p), called again and again.
CompileCall(policies) ==
    /\ Len(calls) < MaxCalls
    /\ \E p \in policies :
       \E io \in Orders(DOMAIN p.Intents) :
       \E so \in Orders(DOMAIN p.SourceTrust) :
       \E ro \in Orders(DOMAIN p.Roles) :
          calls' = Append(calls, [policy |-> p, doc |-> Compile(p, io, so, ro)])
    /\ UNCHANGED <<hc, anVars, engVars, reqVars>>

NextCompile == CompileCall(GuardrailPolicies)
SpecCompile == InitAttach /\ [][NextCompile]_vars

\* C23: compiling the same authoring policy twice yields the same rule
\* document, the header comment with the version apart, the order of the
\* rules included.
C23_CompileDeterministic ==
    \A i, j \in 1..Len(calls) :
        calls[i].policy = calls[j].policy => Tail(calls[i].doc) = Tail(calls[j].doc)

\* ------------------------------------------------------------------------
\* Tool PEP (agent.ToolPEP: one source file with a HITL manager, one without)
\* ------------------------------------------------------------------------
\* The PEPs a server can build: NewToolPEP(engine, hitl, ...) with or
\* without a manager, and NewToolPEP(engine, ...) of tool_pep.go.
ToolPEPs ==
    {[file |-> "part_001", hitlManager |-> TRUE],
     [file |-> "part_001", hitlManager |-> FALSE],
     [file |-> "tool_pep.go", hitlManager |-> FALSE]}
Tools == {"search", "shell"}

HasRequireApproval(obligations) ==
    \E i \in 1..Len(obligations) : obligations[i].Type = "RequireApproval"

\* ToolPEP.Authorize after the engine call: res is the engine's result.
\* HITLManager.RequestApproval stores the request and returns no error.
ToolAuthorize(pep, tool, res) ==
    LET allowed == res.Decision = "ALLOW"
    IN IF pep.file = "part_001"
       THEN IF HasRequireApproval(res.Obligations) /\ pep.hitlManager
            THEN [Allowed |-> FALSE, Reason |-> "Action pending human approval",
                  RequestID |-> "uuid", Obligations |-> res.Obligations, hitlID |-> "hitl"]
            ELSE [Allowed |-> allowed, Reason |-> res.Reason, RequestID |-> "uuid",
                  Obligations |-> res.Obligations, hitlID |-> ""]
       ELSE [Allowed |-> allowed,
             Reason |-> IF allowed THEN res.Reason ELSE "Policy denied tool invocation",
             RequestID |-> "uuid", Obligations |-> res.Obligations, hitlID |-> ""]

\* ToolPEP.Handler: a POST with a well-formed body; the Context is built
\* from the headers and holds no intent and no signals.
ToolHandlerCall(peps, tools) ==
    /\ Len(calls) < MaxCalls
    /\ \E pep \in peps : \E tool \in tools :
       \E c \in {NewContext("")} :
       \E first \in FirstReasons(policySet, c) :
       \E res \in {EvaluateContextWithResult(policySet, c, first)} :
       \E response \in {ToolAuthorize(pep, tool, res)} :
          calls' = Append(calls, [pep |-> pep, tool |-> tool, result |-> res,
                                  response |-> response,
                                  status |-> IF response.Allowed THEN 200 ELSE 403])
    /\ UNCHANGED <<hc, anVars, engVars, reqVars>>

InitTool == Init /\ hc.CedarEngine /\ hc.IntentAnalyzer
NextTool == ToolHandlerCall(ToolPEPs, Tools)
SpecTool == InitTool /\ [][NextTool]_vars

\* C24: whenever the engine's result for a tool authorization carries a
\* RequireApproval obligation, the response of the Tool PEP is pending: not
\* allowed, HTTP 403, and with a HITL identifier.
C24_RequireApprovalIsPending ==
    \A i \in 1..Len(calls) :
        HasRequireApproval(calls[i].result.Obligations) =>
            /\ ~calls[i].response.Allowed
            /\ calls[i].status = 403
            /\ calls[i].response.hitlID # ""

\* The client was sent the provider's response.
Relayed == \E i \in 1..Len(written) : written[i] = "upstream_body"

\* C25: every allowed response, that is every response that relays
\* upstream content, carries X-Guardrail-PreStream-Enforced: true, set
\* before the first byte of the body is written.
C25_AllowedCarriesPreStreamEnforced ==
    Relayed => headers.PreStreamEnforced = "true"

\* C26: every response to a processed chat request, allowed or denied at
\* any stage, carries both X-Guardrail-Request-ID and
\* X-Guardrail-Policy-Version.
C26_EveryResponseCarriesAuditHeaders ==
    (Responded /\ tr.parsed) =>
        /\ headers.RequestID # "unset"
        /\ headers.PolicyVersion # "unset"

C29_OneReloadAtATime ==
    /\ watch.running <= 1
    /\ watch.running = (IF rl.pc = "idle" THEN 0 ELSE 1)
    /\ pc = "evaluate" => ENABLED Evaluate
\* A request is at the engine call while one callback is between its two
\* stores and another is blocked at the lock.
C29_Witness ==
    /\ pc = "evaluate" /\ rl.pc = "storeVersion" /\ watch.waiting > 0

\* A running server whose authoring file is rewritten: requests of the
\* analyst on recruitment, the engine's watcher started on its policy file,
\* which is rewritten as well.
\* The handler's goroutine, the timer and the callbacks all get to run.
RoleBodies == {[parses |-> TRUE, messages |-> <<[role |-> "user", content |-> TxtHello]>>]}
InitRoles == InitReload /\ policyFile = "PolA"
HandlerStep ==
    \/ Receive(RoleBodies, {"analyst"})
    \/ Classify({"recruitment"}, {"none"}, {QueryReply})
    \/ Evaluate
    \/ Enforce
    \/ Forward({[err |-> "", parses |-> TRUE, choices |-> <<TxtHello>>]})
    \/ Egress
    \/ Finish
\* The steps of the timer and of its callbacks.
ReloadStep ==
    \/ TimerFire
    \/ ReloadRead
    \/ ReloadStorePS
    \/ ReloadStoreVersion
NextRoles ==
    \/ HandlerStep
    \/ ReloadStep
    \/ GuardrailWrite
    \/ FileWrite({"PolB"})
SpecRoles ==
    /\ InitRoles /\ [][NextRoles]_vars
    /\ WF_vars(HandlerStep) /\ WF_vars(ReloadStep)

\* A request of a role, on a topic that the role's allowed_topics on disk
\* do not hold, was answered with something else than 403.
AllowedOffTopic ==
    /\ Responded /\ tr.role \in DOMAIN Roles
    /\ GuardrailFiles[guardrailYaml][tr.role].AllowedTopics # {}
    /\ GateDomain \notin GuardrailFiles[guardrailYaml][tr.role].AllowedTopics
    /\ resp.status # 403

\* C27: after the policy file is rewritten so that a role's allowed_topics
\* no longer hold a topic, the requests of that role on that topic
\* eventually are all answered 403, without a restart.
C27_RoleRewriteTakesEffect ==
    <>[](guardrailYaml = "narrowed" => ~AllowedOffTopic)

\* ------------------------------------------------------------------------
\* The cache of IntentAnalyzer.callSidecar (part_013 71-122)
\* ------------------------------------------------------------------------
\* Lines 72-87: the key is computed and looked up under the read lock; a
\* hit returns the stored signal.
cacheCheck(g, k) ==
    /\ gr[g].pc = "outside"
    /\ gr' = [gr EXCEPT ![g] =
                 IF k # "" /\ k \in cache.entries
                 THEN Outside
                 ELSE [pc |-> "post", key |-> k]]

CacheLookup(goroutines, keys) ==
    /\ \E g \in goroutines : \E k \in keys : cacheCheck(g, k)
    /\ UNCHANGED <<hc, calls, cache, compVars, engVars, reqVars>>

\* Lines 89-108: the sidecar is asked; any failure returns without storing.
sidecarRequest(g, ok) ==
    /\ gr[g].pc = "post"
    /\ gr' = [gr EXCEPT ![g] =
                 IF ~ok \/ @.key = "" THEN Outside
                 ELSE [@ EXCEPT !.pc = "store"]]

SidecarPost(goroutines) ==
    /\ \E g \in goroutines : \E ok \in BOOLEAN : sidecarRequest(g, ok)
    /\ UNCHANGED <<hc, calls, cache, compVars, engVars, reqVars>>

\* A cache that is never dropped.
EvictNever(c) == c
\* Lines 113-116: a full map is replaced by an empty one.
Evict(c) ==
    IF Cardinality(c.entries) >= maxEntries THEN [entries |-> {}, dropped |-> TRUE] ELSE c

\* Lines 111-119: under the write lock, evict and insert.
cacheResult(g) ==
    /\ gr[g].pc = "store"
    /\ cache' = [Evict(cache) EXCEPT !.entries = @ \cup {gr[g].key}]
    /\ gr' = [gr EXCEPT ![g] = Outside]

CacheStore(goroutines) ==
    /\ \E g \in goroutines : cacheResult(g)
    /\ UNCHANGED <<hc, calls, compVars, engVars, reqVars>>

NextCache ==
    \/ CacheLookup(Goroutines, CacheKeys)
    \/ SidecarPost(Goroutines)
    \/ CacheStore(Goroutines)
SpecCache == InitAttach /\ [][NextCache]_vars

\* C30: the intent cache never holds more entries than its capacity, at any
\* time and under any interleaving of concurrent classifications.
C30_CacheWithinCapacity ==
    Cardinality(cache.entries) <= maxEntries
\* The map was dropped and is full again, while every goroutine is about
\* to store one more key.
C30_Witness ==
    /\ cache.dropped /\ Cardinality(cache.entries) = maxEntries
    /\ \A g \in Goroutines : gr[g].pc = "store" /\ gr[g].key \notin cache.entries

\* ------------------------------------------------------------------------
\* Topic detection (HeuristicAnalyzer.DetectTopic, part_016 50-104)
\* ------------------------------------------------------------------------
\* The topics table of the authoring policy: topic -> keywords.
topicConfigs ==
    [recruitment |-> <<"hiring", "candidate">>,
     politics    |-> <<"election", "senate">>]

\* (?i): the case of a word is folded before it is compared.
FoldCase(w) ==
    CASE w = "Hiring" -> "hiring"
      [] w = "ELECTION" -> "election"
      [] OTHER -> w

\* `(?i)\bkw\b` on a text of words: some word is the keyword, case apart.
KwMatchString(kw, words) ==
    \E i \in 1..Len(words) : FoldCase(words[i]) = FoldCase(kw)

\* Lines 92-97: the number of keyword regexps of a topic that match.
matchCount(name, words) ==
    Cardinality({i \in 1..Len(topicConfigs[name]) :
                    KwMatchString(topicConfigs[name][i], words)})

\* Lines 91-102: the loop over h.topics in the order the map yields them,
\* keeping the first topic whose count exceeds the best one so far.
RECURSIVE DetectLoop(_, _, _, _)
DetectLoop(order, words, bestTopic, bestCount) ==
    IF order = << >> THEN bestTopic
    ELSE LET name == Head(order)
             n == matchCount(name, words)
         IN IF n > bestCount
            THEN DetectLoop(Tail(order), words, name, n)
            ELSE DetectLoop(Tail(order), words, bestTopic, bestCount)

DetectTopic(order, words) == DetectLoop(order, words, "", 0)

TopicTexts ==
    {<< >>, <<"hello">>, <<"Hiring">>, <<"hiring", "hiring">>,
     <<"ELECTION", "senate">>, <<"hiring", "election">>,
     <<"hiring", "election", "senate">>, <<"hiring", "candidate", "election", "senate">>}

\* One call of DetectTopic; Go yields the keys of h.topics in any order.
DetectTopicCall(texts) ==
    /\ Len(calls) < MaxCalls
    /\ \E words \in texts : \E order \in Orders(DOMAIN topicConfigs) :
          calls' = Append(calls, [text |-> words, topic |-> DetectTopic(order, words)])
    /\ UNCHANGED <<hc, anVars, engVars, reqVars>>

NextTopic == DetectTopicCall(TopicTexts)
SpecTopic == InitAttach /\ [][NextTopic]_vars

\* C31: DetectTopic returns a topic only if its count of distinct matching
\* keywords is strictly greater than the count of every other topic; when
\* two or more topics tie for the highest count it returns no topic.
C31_TopicStrictlyHighest ==
    \A i \in 1..Len(calls) :
        calls[i].topic # "" =>
            \A other \in DOMAIN topicConfigs \ {calls[i].topic} :
                matchCount(calls[i].topic, calls[i].text) > matchCount(other, calls[i].text)

\* ------------------------------------------------------------------------
\* Rate limiting (input.RateLimitGuardrail.Execute, part_009 77-158)
\* ------------------------------------------------------------------------
\* Time passes.
ClockTick ==
    /\ limiter.clock < MaxClock
    /\ limiter' = [limiter EXCEPT !.clock = @ + 1]
    /\ UNCHANGED <<hc, calls, cache, gr, canary, heap, hitl, breaker, engVars, reqVars>>

\* Lines 78-79: the key and time.Now() are read before the lock is taken.
ExecuteEnter(goroutines, keys) ==
    /\ \E g \in goroutines : \E k \in keys :
          /\ limiter.reqs[g].pc = "outside"
          /\ limiter' = [limiter EXCEPT !.reqs[g] =
                            [pc |-> "lock", key |-> k, now |-> limiter.clock]]
    /\ UNCHANGED <<hc, calls, cache, gr, canary, heap, hitl, breaker, engVars, reqVars>>

\* A mutex that lets everyone in.
muIgnored(l) == TRUE
\* sync.RWMutex: Lock() returns when no one holds it.
muFree(l) == l.mu = ""

\* Line 81: g.mu.Lock().
ExecuteLock(goroutines) ==
    /\ \E g \in goroutines :
          /\ limiter.reqs[g].pc = "lock"
          /\ muFree(limiter)
          /\ limiter' = [limiter EXCEPT !.mu = g, !.reqs[g].pc = "check"]
    /\ UNCHANGED <<hc, calls, cache, gr, canary, heap, hitl, breaker, engVars, reqVars>>

\* Lines 84-91: the counter of the key, created on first use.
GetCounter(c, now) ==
    IF c.exists THEN c
    ELSE [exists |-> TRUE, minuteCount |-> 0, hourCount |-> 0,
          minuteReset |-> now + Minute, hourReset |-> now + Hour]

\* Lines 93-101: a window that has passed is started again.
ResetWindows(c, now) ==
    LET m == IF now > c.minuteReset
             THEN [c EXCEPT !.minuteCount = 0, !.minuteReset = now + Minute] ELSE c
    IN IF now > m.hourReset
       THEN [m EXCEPT !.hourCount = 0, !.hourReset = now + Hour] ELSE m

\* Lines 103-149: which limit, if any, blocks the request.
LimitExceeded(c) ==
    IF c.minuteCount >= RequestsPerMinute THEN "minute"
    ELSE IF c.hourCount >= RequestsPerHour THEN "hour"
    ELSE ""

\* Lines 84-149 under the lock: a blocked request returns, which unlocks.
\* passed counts the requests passed since the window was started.
ExecuteCheck(goroutines) ==
    /\ \E g \in goroutines :
          /\ limiter.reqs[g].pc = "check"
          /\ LET r == limiter.reqs[g]
                 old == GetCounter(limiter.counters[r.key], r.now)
                 c == ResetWindows(old, r.now)
                 p == limiter.passed[r.key]
                 blocked == LimitExceeded(c) # ""
             IN limiter' = [limiter EXCEPT
                    !.counters[r.key] = c,
                    !.passed[r.key] =
                        [minute |-> IF c.minuteReset # old.minuteReset THEN 0 ELSE p.minute,
                         hour |-> IF c.hourReset # old.hourReset THEN 0 ELSE p.hour],
                    !.mu = IF blocked THEN "" ELSE @,
                    !.last = IF blocked THEN LimitExceeded(c) ELSE @,
                    !.reqs[g] = IF blocked THEN OutsideExecute
                                ELSE [r EXCEPT !.pc = "increment"]]
    /\ UNCHANGED <<hc, calls, cache, gr, canary, heap, hitl, breaker, engVars, reqVars>>

\* Lines 151-157: both counters are incremented, the request passes and
\* the deferred Unlock runs.
ExecuteIncrement(goroutines) ==
    /\ \E g \in goroutines :
          /\ limiter.reqs[g].pc = "increment"
          /\ LET k == limiter.reqs[g].key
             IN limiter' = [limiter EXCEPT
                    !.counters[k].minuteCount = @ + 1,
                    !.counters[k].hourCount = @ + 1,
                    !.passed[k].minute = @ + 1,
                    !.passed[k].hour = @ + 1,
                    !.mu = "",
                    !.last = "pass",
                    !.reqs[g] = OutsideExecute]
    /\ UNCHANGED <<hc, calls, cache, gr, canary, heap, hitl, breaker, engVars, reqVars>>

NextLimiter ==
    \/ ClockTick
    \/ ExecuteEnter(Goroutines, RateKeys)
    \/ ExecuteLock(Goroutines)
    \/ ExecuteCheck(Goroutines)
    \/ ExecuteIncrement(Goroutines)
SpecLimiter == InitAttach /\ [][NextLimiter]_vars

\* C32: for each rate-limit key the window check and the increment are one
\* atomic step: under any interleaving the number of requests passed within
\* one minute window never exceeds requests_per_minute, within one hour
\* window never requests_per_hour, and at most one request is between the
\* check and the increment.
C32_WindowsNeverExceeded ==
    /\ \A k \in RateKeys :
          /\ limiter.passed[k].minute <= RequestsPerMinute
          /\ limiter.passed[k].hour <= RequestsPerHour
          /\ limiter.counters[k].minuteCount = limiter.passed[k].minute
          /\ limiter.counters[k].hourCount = limiter.passed[k].hour
    /\ Cardinality({g \in Goroutines : limiter.reqs[g].pc \in {"check", "increment"}}) <= 1
\* A request was just blocked by the hour limit of a key whose minute
\* window was started again, while one request holds the lock and another
\* waits for it.
C32_Witness ==
    \E k \in RateKeys : \E g2, g3 \in Goroutines :
        /\ limiter.last = "hour"
        /\ limiter.passed[k].hour = RequestsPerHour
        /\ limiter.passed[k].minute < RequestsPerMinute
        /\ limiter.reqs[g2].pc = "check" /\ limiter.reqs[g2].key = k
        /\ limiter.reqs[g3].pc = "lock" /\ limiter.reqs[g3].key = k

\* ------------------------------------------------------------------------
\* Canary tokens (analyzer.CanaryDetector, canary.go 24-110)
\* ------------------------------------------------------------------------
\* The values rand.Read may produce, hex-encoded.
CanaryTokens == {"a3f1", "9c0e"}
CanaryPrefix == "[[CANARY:"
CanarySuffix == "]]"
\* CanaryToken.GetMarker: Prefix + Token + Suffix, a text of three pieces.
GetMarker(token) == <<CanaryPrefix, token, CanarySuffix>>

\* strings.Contains on texts that are sequences of pieces.
Contains(text, sub) ==
    \E i \in 0..(Len(text) - Len(sub)) :
        \A j \in 1..Len(sub) : text[i + j] = sub[j]

\* GenerateCanary: a random token replaces the one of the request.
GenerateCanary(requests) ==
    /\ \E r \in requests : \E t \in CanaryTokens :
          canary' = [canary EXCEPT !.tokens[r] = t]
    /\ UNCHANGED <<hc, calls, cache, gr, limiter, heap, hitl, breaker, engVars, reqVars>>

\* Cleanup: delete(d.tokens, requestID).
Cleanup(requests) ==
    /\ \E r \in requests :
          /\ canary.tokens[r] # ""
          /\ canary' = [canary EXCEPT !.tokens[r] = ""]
    /\ UNCHANGED <<hc, calls, cache, gr, limiter, heap, hitl, breaker, engVars, reqVars>>

\* Check, lines 58-83: d.tokens[requestID] is looked up first.
Check(tokens, requestID, userInput) ==
    IF tokens[requestID] = "" THEN FALSE
    ELSE IF Contains(userInput, GetMarker(tokens[requestID])) THEN TRUE
    ELSE IF Contains(userInput, <<tokens[requestID]>>) THEN TRUE
    ELSE Contains(userInput, <<CanaryPrefix>>)

CanaryTexts ==
    {<<"hello">>, <<"hello", "a3f1">>, <<"9c0e", "hello">>,
     <<"[[CANARY:", "a3f1", "]]">>, <<"see", "[[CANARY:", "0000", "]]">>,
     <<"[[CANARY:">>}

\* One call of Check; known are the tokens the detector holds.
CheckCall(requests, texts) ==
    /\ \E r \in requests : \E text \in texts :
          canary' = [canary EXCEPT !.last =
                        [requestID |-> r, text |-> text,
                         known |-> {canary.tokens[q] : q \in CanaryRequests} \ {""},
                         found |-> Check(canary.tokens, r, text)]]
    /\ UNCHANGED <<hc, calls, cache, gr, limiter, heap, hitl, breaker, engVars, reqVars>>

NextCanary ==
    \/ GenerateCanary(CanaryRequests)
    \/ Cleanup(CanaryRequests)
    \/ CheckCall(CanaryRequests, CanaryTexts)
SpecCanary == InitAttach /\ [][NextCanary]_vars

\* C33: Check(requestId, text) returns true whenever a currently known
\* canary token, or the literal prefix "[[CANARY:", appears in text.
C33_CheckFindsKnownTokens ==
    (\/ \E t \in canary.last.known : Contains(canary.last.text, <<t>>)
     \/ Contains(canary.last.text, <<CanaryPrefix>>))
        => canary.last.found

\* ------------------------------------------------------------------------
\* The IntentSignal a handler gets from the analyzer (part_013 71-122,
\* handler.go 154-187)
\* ------------------------------------------------------------------------
\* What the sidecar's JSON decodes to: with and without an action.
SignalReplies ==
    {[Intent |-> "info.query", Action |-> ""],
     [Intent |-> "info.query", Action |-> "query"],
     [Intent |-> "unknown", Action |-> ""]}
SharedKeys == {"k1", "k2"}

\* handler.go 156 and 176: a handler calls the analyzer; a hit returns the
\* pointer that the map holds (part_013 82-84).
AnalyzeEnter(goroutines, keys) ==
    /\ \E g \in goroutines : \E k \in keys :
          /\ heap.held[g] = NoHold
          /\ cacheCheck(g, k)
          /\ heap' = IF k # "" /\ k \in cache.entries
                     THEN [heap EXCEPT !.held[g] = [obj |-> heap.cached[k], pc |-> "backfill"]]
                     ELSE heap
    /\ UNCHANGED <<hc, calls, cache, limiter, canary, hitl, breaker, engVars, reqVars>>

\* part_013 89-108: `var signal IntentSignal` is decoded from the reply; a
\* failure returns nil and the handler goes on without a signal.
AnalyzeSidecar(goroutines, replies) ==
    /\ \E g \in goroutines : \E ok \in BOOLEAN : \E reply \in replies :
          /\ sidecarRequest(g, ok)
          /\ ok => heap.next <= MaxObjs
          /\ heap' = IF ok
                     THEN [heap EXCEPT !.objs[heap.next] = reply, !.next = @ + 1,
                              !.held[g] = [obj |-> heap.next,
                                           pc |-> IF gr[g].key = "" THEN "backfill" ELSE "callee"]]
                     ELSE heap
    /\ UNCHANGED <<hc, calls, cache, limiter, canary, hitl, breaker, engVars, reqVars>>

\* part_013 110-121: `a.cache[cacheKey] = &signal; return &signal`: the map
\* and the caller get the same pointer.
AnalyzeStore(goroutines) ==
    /\ \E g \in goroutines :
          /\ cacheResult(g)
          /\ heap' = [heap EXCEPT
                 !.cached = [k \in CacheKeys |->
                                IF k = gr[g].key THEN heap.held[g].obj
                                ELSE IF k \in Evict(cache).entries THEN heap.cached[k]
                                ELSE 0],
                 !.held[g].pc = "backfill"]
    /\ UNCHANGED <<hc, calls, limiter, canary, hitl, breaker, engVars, reqVars>>

\* handler.go 162 and 182: `if intentSignal.Action == ""`.
HandlerActionTest(goroutines) ==
    /\ \E g \in goroutines :
          /\ heap.held[g].pc = "backfill"
          /\ heap' = [heap EXCEPT !.held[g].pc =
                         IF heap.objs[heap.held[g].obj].Action = "" THEN "write" ELSE "attach"]
    /\ UNCHANGED <<hc, calls, cache, gr, limiter, canary, hitl, breaker, engVars, reqVars>>

\* handler.go 163 and 183: `intentSignal.Action = ActionForIntent(...)`, a
\* write through the pointer.
HandlerActionWrite(goroutines) ==
    /\ \E g \in goroutines :
          /\ heap.held[g].pc = "write"
          /\ heap' = [heap EXCEPT
                 !.objs[heap.held[g].obj].Action = ActionForIntent(heap.objs[heap.held[g].obj].Intent),
                 !.held[g].pc = "attach"]
    /\ UNCHANGED <<hc, calls, cache, gr, limiter, canary, hitl, breaker, engVars, reqVars>>

\* handler.go 165-174 and 185-195: AttachIntent and the log line read the
\* fields; the handler then drops the pointer.
HandlerAttach(goroutines) ==
    /\ \E g \in goroutines :
          /\ heap.held[g].pc = "attach"
          /\ heap' = [heap EXCEPT !.held[g] = NoHold]
    /\ UNCHANGED <<hc, calls, cache, gr, limiter, canary, hitl, breaker, engVars, reqVars>>

NextShared ==
    \/ AnalyzeEnter(Goroutines, SharedKeys)
    \/ AnalyzeSidecar(Goroutines, SignalReplies)
    \/ AnalyzeStore(Goroutines)
    \/ HandlerActionTest(Goroutines)
    \/ HandlerActionWrite(Goroutines)
    \/ HandlerAttach(Goroutines)
SpecShared == InitAttach /\ [][NextShared]_vars

\* Another request can obtain o, or holds it: the map holds o, or another
\* goroutine has a pointer to it.
SharedWith(o, g) ==
    \/ \E k \in CacheKeys : heap.cached[k] = o
    \/ \E h \in Goroutines \ {g} : heap.held[h].obj = o

\* C34: concurrent requests share no mutable per-request state: an
\* IntentSignal held in the intent cache is never written by a request
\* handler while another request can obtain and read the same object.
C34_NoWriteToSharedSignal ==
    \A g \in Goroutines :
        heap.held[g].pc = "write" => ~SharedWith(heap.held[g].obj, g)

\* ------------------------------------------------------------------------
\* Stopping the watcher (Engine.StopHotReload, engine.go 103-109)
\* ------------------------------------------------------------------------
\* close(e.stopWatch) and e.watcher.Close(): watchLoop returns and takes
\* no more events. The timer that watchLoop started and the callbacks that
\* have started are not touched.
StopHotReload ==
    /\ ~watch.stopped
    /\ watch' = [watch EXCEPT !.stopped = TRUE]
    /\ UNCHANGED <<hc, calls, anVars, policyFile, policySet, policyVersion, rl, timerArmed,
                   fileEvents, guardrailYaml, reqVars>>

NextStop ==
    \/ FileWrite(FileContents \ {"missing"})
    \/ TimerFire
    \/ ReloadRead
    \/ ReloadStorePS
    \/ ReloadStoreVersion
    \/ StopHotReload
SpecStop == InitReload /\ [][NextStop]_vars

\* C35: after StopHotReload has returned, the active policy set and the
\* policy version are never replaced again, even when a file event arrived
\* less than 500 ms before the stop.
C35_NoReloadAfterStop ==
    [][watch.stopped => (policySet' = policySet /\ policyVersion' = policyVersion)]_vars

\* ------------------------------------------------------------------------
\* Human approval (agent.HITLManager, README.md 308-449). The manager has
\* no lock: the statements of concurrent calls interleave.
\* ------------------------------------------------------------------------
HitlUnchanged ==
    UNCHANGED <<hc, calls, cache, gr, limiter, canary, heap, breaker, engVars, reqVars>>

\* A request that never expires.
ExpiredNever(now, expiresAt) == FALSE
\* time.Now().After(req.ExpiresAt)
Expired(now, expiresAt) == now > expiresAt

\* Time passes; a caller that sleeps gets closer to waking up. The waiter's
\* own statements take no time.
HitlTick ==
    /\ hitl.wait.pc \in {"none", "returned"} \/ (hitl.wait.pc = "sleep" /\ hitl.wait.left > 0)
    /\ hitl.clock < HitlMaxClock \/ hitl.wait.pc = "sleep"
    /\ hitl' = [hitl EXCEPT
           !.clock = IF @ < HitlMaxClock THEN @ + 1 ELSE @,
           !.wait.left = IF hitl.wait.pc = "sleep" THEN @ - 1 ELSE @]
    /\ HitlUnchanged

\* RequestApproval, README.md 329-366: a pending request that expires
\* DefaultTimeout from now.
RequestApproval ==
    /\ ~hitl.req.exists
    /\ hitl.clock + DefaultTimeout + checkInterval < HitlMaxClock
    /\ hitl' = [hitl EXCEPT !.req = [exists |-> TRUE, Status |-> "pending",
                                     ExpiresAt |-> hitl.clock + DefaultTimeout]]
    /\ HitlUnchanged

\* Approve, lines 387-395: an unknown or no longer pending request is
\* refused.
ApproveTest(callers) ==
    /\ \E g \in callers :
          /\ hitl.at[g] = "idle"
          /\ hitl' = [hitl EXCEPT !.at[g] =
                         IF hitl.req.exists /\ hitl.req.Status = "pending"
                         THEN "approve" ELSE "idle"]
    /\ HitlUnchanged

\* Approve, lines 397-407: expired now, or approved.
ApproveWrite(callers) ==
    /\ \E g \in callers :
          /\ hitl.at[g] = "approve"
          /\ hitl' = [hitl EXCEPT !.at[g] = "idle",
                         !.req.Status = IF Expired(hitl.clock, hitl.req.ExpiresAt)
                                        THEN "expired" ELSE "approved"]
    /\ HitlUnchanged

\* Deny, lines 411-419.
DenyTest(callers) ==
    /\ \E g \in callers :
          /\ hitl.at[g] = "idle"
          /\ hitl' = [hitl EXCEPT !.at[g] =
                         IF hitl.req.exists /\ hitl.req.Status = "pending"
                         THEN "deny" ELSE "idle"]
    /\ HitlUnchanged

\* Deny, lines 421-427: denied; the expiry time is not looked at.
DenyWrite(callers) ==
    /\ \E g \in callers :
          /\ hitl.at[g] = "deny"
          /\ hitl' = [hitl EXCEPT !.at[g] = "idle", !.req.Status = "denied"]
    /\ HitlUnchanged

\* GetRequest, lines 369-376: the test of the expiration.
GetRequestTest(callers) ==
    /\ \E g \in callers :
          /\ hitl.at[g] = "idle"
          /\ hitl' = [hitl EXCEPT !.at[g] =
                         IF /\ hitl.req.exists /\ hitl.req.Status = "pending"
                            /\ Expired(hitl.clock, hitl.req.ExpiresAt)
                         THEN "get" ELSE "idle"]
    /\ HitlUnchanged

\* GetRequest, line 377: req.Status = ApprovalExpired.
GetRequestWrite(callers) ==
    /\ \E g \in callers :
          /\ hitl.at[g] = "get"
          /\ hitl' = [hitl EXCEPT !.at[g] = "idle", !.req.Status = "expired"]
    /\ HitlUnchanged

\* WaitForApproval is called on an existing request.
WaitStart ==
    /\ hitl.wait.pc = "none" /\ hitl.req.exists
    /\ hitl' = [hitl EXCEPT !.wait = [NoWait EXCEPT !.pc = "get", !.startedAt = hitl.clock]]
    /\ HitlUnchanged

\* Line 433, GetRequest inside the loop: its test, then its write.
WaitGet ==
    /\ hitl.wait.pc = "get"
    /\ hitl' = [hitl EXCEPT !.wait.pc =
                   IF hitl.req.Status = "pending" /\ Expired(hitl.clock, hitl.req.ExpiresAt)
                   THEN "expire" ELSE "switch"]
    /\ HitlUnchanged

WaitExpire ==
    /\ hitl.wait.pc = "expire"
    /\ hitl' = [hitl EXCEPT !.wait.pc = "switch", !.req.Status = "expired"]
    /\ HitlUnchanged

\* Lines 438-447: return on a final status, else time.Sleep(checkInterval).
WaitSwitch ==
    /\ hitl.wait.pc = "switch"
    /\ hitl' = [hitl EXCEPT !.wait =
                   IF hitl.req.Status \in {"approved", "denied", "expired"}
                   THEN [@ EXCEPT !.pc = "returned", !.returnedAt = hitl.clock]
                   ELSE [@ EXCEPT !.pc = "sleep", !.left = checkInterval]]
    /\ HitlUnchanged

\* The sleep is over: the loop starts again.
WaitWake ==
    /\ hitl.wait.pc = "sleep" /\ hitl.wait.left = 0
    /\ hitl' = [hitl EXCEPT !.wait.pc = "get"]
    /\ HitlUnchanged

WaitStep == WaitGet \/ WaitExpire \/ WaitSwitch \/ WaitWake

NextHitl ==
    \/ HitlTick
    \/ RequestApproval
    \/ ApproveTest(HitlCallers)
    \/ ApproveWrite(HitlCallers)
    \/ DenyTest(HitlCallers)
    \/ DenyWrite(HitlCallers)
    \/ GetRequestTest(HitlCallers)
    \/ GetRequestWrite(HitlCallers)
    \/ WaitStart
    \/ WaitGet
    \/ WaitExpire
    \/ WaitSwitch
    \/ WaitWake
SpecHitl == InitAttach /\ [][NextHitl]_vars

\* C36: the status of an approval request changes only while it is
\* pending: once approved, denied or expired, no Approve, Deny or
\* GetRequest call changes it again.
C36_StatusChangesOnlyWhilePending ==
    [][hitl.req.Status \in {"approved", "denied", "expired"}
          => hitl'.req.Status = hitl.req.Status]_vars

\* C37: a request whose expiry time has passed never becomes approved or
\* denied: Approve and Deny called after the expiry time leave it not
\* approved and not denied.
C37_NoDecisionAfterExpiry ==
    [][(/\ hitl.req.exists /\ Expired(hitl.clock, hitl.req.ExpiresAt)
        /\ hitl'.req.Status # hitl.req.Status)
          => hitl'.req.Status \notin {"approved", "denied"}]_vars

\* WaitForApproval with one caller of Approve and Deny. The goroutine
\* inside WaitForApproval is scheduled again and again and time passes;
\* nothing makes anyone decide the request.
NextWait ==
    \/ HitlTick
    \/ RequestApproval
    \/ ApproveTest({"g1"})
    \/ ApproveWrite({"g1"})
    \/ DenyTest({"g1"})
    \/ DenyWrite({"g1"})
    \/ WaitStart
    \/ WaitGet
    \/ WaitExpire
    \/ WaitSwitch
    \/ WaitWake
SpecWait ==
    /\ InitAttach /\ [][NextWait]_vars
    /\ WF_vars(WaitStep) /\ WF_vars(HitlTick)

\* The latest time at which the call may return: one check interval after
\* the expiry time, or the time of the call when that is later.
WaitDeadline ==
    IF hitl.wait.startedAt > hitl.req.ExpiresAt + checkInterval
    THEN hitl.wait.startedAt ELSE hitl.req.ExpiresAt + checkInterval

\* C38: WaitForApproval on an existing request always returns: it blocks
\* only until the request is approved, denied or expired, and returns no
\* later than one check interval after the request's expiry time.
C38_WaitForApprovalReturns ==
    /\ [](hitl.wait.pc = "returned" =>
             /\ hitl.req.Status \in {"approved", "denied", "expired"}
             /\ hitl.wait.returnedAt <= WaitDeadline)
    /\ (hitl.wait.pc # "none" ~> hitl.wait.pc = "returned")
\* A call that slept, found the request expired at its next check and
\* returned one check interval after the expiry time.
C38_Witness ==
    /\ hitl.wait.pc = "returned" /\ hitl.req.Status = "expired"
    /\ hitl.wait.startedAt < hitl.req.ExpiresAt
    /\ hitl.wait.returnedAt = hitl.req.ExpiresAt + checkInterval

\* ------------------------------------------------------------------------
\* Circuit breaker (provider.CircuitBreaker, openai.go 158-290). The struct
\* has no lock: the statements of concurrent Execute calls interleave, and
\* cb.concurrent++ is a load and a store.
\* ------------------------------------------------------------------------
BreakerUnchanged ==
    UNCHANGED <<hc, calls, cache, gr, limiter, canary, heap, hitl, engVars, reqVars>>

\* More than config.Timeout passes after the last failure.
BreakerTimeout ==
    /\ breaker.state = "open" /\ ~breaker.timedOut
    /\ breaker' = [breaker EXCEPT !.timedOut = TRUE]
    /\ BreakerUnchanged

\* Lines 207-222: an open circuit rejects the call or becomes half-open;
\* then the concurrent limit is tested.
ExecuteAdmit(goroutines) ==
    /\ \E g \in goroutines :
          /\ breaker.in[g].pc = "outside"
          /\ LET rejected == breaker.state = "open" /\ ~breaker.timedOut
                 halfOpen == breaker.state = "open" /\ breaker.timedOut
                 full == MaxConcurrent > 0 /\ breaker.concurrent >= MaxConcurrent
             IN breaker' = [breaker EXCEPT
                    !.state = IF halfOpen THEN "half-open" ELSE @,
                    !.successes = IF halfOpen THEN 0 ELSE @,
                    !.in[g].pc = IF rejected \/ full THEN "outside" ELSE "inc"]
    /\ BreakerUnchanged

\* Line 224, cb.concurrent++: the load.
ConcurrentLoad(goroutines) ==
    /\ \E g \in goroutines :
          /\ breaker.in[g].pc \in {"inc", "dec"}
          /\ breaker' = [breaker EXCEPT !.in[g] =
                 [pc |-> IF @.pc = "inc" THEN "incStore" ELSE "decStore",
                  tmp |-> breaker.concurrent]]
    /\ BreakerUnchanged

\* Line 224: the store; fn() starts. The model follows the counter up to
\* one above MaxConcurrent.
ConcurrentInc(goroutines) ==
    /\ \E g \in goroutines :
          /\ breaker.in[g].pc = "incStore"
          /\ breaker.in[g].tmp <= MaxConcurrent
          /\ breaker' = [breaker EXCEPT !.concurrent = breaker.in[g].tmp + 1,
                                        !.in[g] = [pc |-> "fn", tmp |-> 0]]
    /\ BreakerUnchanged

\* recordFailure, lines 267-279.
recordFailure(cb) ==
    LET f == cb.failures + 1
    IN [cb EXCEPT !.failures = f, !.timedOut = FALSE,
                  !.state = IF cb.state = "half-open" \/ f >= FailureThreshold
                            THEN "open" ELSE @]

\* recordSuccess, lines 281-291.
recordSuccess(cb) ==
    IF cb.state = "half-open"
    THEN LET n == cb.successes + 1
         IN IF n >= SuccessThreshold
            THEN [cb EXCEPT !.successes = n, !.state = "closed", !.failures = 0]
            ELSE [cb EXCEPT !.successes = n]
    ELSE [cb EXCEPT !.failures = 0]

\* Lines 228-235: fn() returns and its result is recorded.
FnReturn(goroutines) ==
    /\ \E g \in goroutines : \E failed \in BOOLEAN :
          /\ breaker.in[g].pc = "fn"
          /\ failed => breaker.failures < MaxFailures
          /\ breaker' = [(IF failed THEN recordFailure(breaker) ELSE recordSuccess(breaker))
                            EXCEPT !.in[g].pc = "dec"]
    /\ BreakerUnchanged

\* Line 225, the deferred cb.concurrent--: the store; Execute returns. The
\* model follows the counter down to one below zero.
ConcurrentDec(goroutines) ==
    /\ \E g \in goroutines :
          /\ breaker.in[g].pc = "decStore"
          /\ breaker.in[g].tmp >= 0
          /\ breaker' = [breaker EXCEPT !.concurrent = breaker.in[g].tmp - 1,
                                        !.in[g] = OutsideBreaker]
    /\ BreakerUnchanged

NextBreaker ==
    \/ BreakerTimeout
    \/ ExecuteAdmit(Goroutines)
    \/ ConcurrentLoad(Goroutines)
    \/ ConcurrentInc(Goroutines)
    \/ FnReturn(Goroutines)
    \/ ConcurrentDec(Goroutines)
SpecBreaker == InitAttach /\ [][NextBreaker]_vars

\* The provider calls that are executing inside the breaker.
Executing == {g \in Goroutines : breaker.in[g].pc = "fn"}

\* C39: with MaxConcurrent > 0 the number of provider calls executing
\* inside the circuit breaker at the same time never exceeds
\* MaxConcurrent, under any interleaving of concurrent Execute calls.
C39_AtMostMaxConcurrent ==
    Cardinality(Executing) <= MaxConcurrent
====
